---- MODULE Spec2Model ----
(***************************************************************************)
(* Model of the finance simulator's reactive core:                         *)
(*   FinancialDataValidator  (src/src/lib/validation.ts, lines 1-462)      *)
(*   StateManager            (src/src/lib/validation.ts, lines 465-1628)   *)
(*   FinanceEngine           (src/unnamed/part_001)                        *)
(*   useRealTimeUpdates      (src/src/hooks/useRealTimeUpdates.ts)         *)
(*                                                                         *)
(* JavaScript values are encoded as follows.  A number is an integer; in   *)
(* a place where a number is expected, undefined is the sentinel NaV, the  *)
(* number NaN is NaN, null is NullNum and -Infinity is NegInf.  An object  *)
(* is a record, the null object is NULL.  A string that may be null uses   *)
(* the sentinel NullStr.  Channel-mix fractions are kept in tenths (0.7 is *)
(* 7) and money results in hundredths (satang), so that the arithmetic of  *)
(* the engine stays within the integers.                                   *)
(* JSON.stringify(x) is the record [json |-> v] where v is what the        *)
(* serialisation keeps of x (NaN and the infinities are written as null):  *)
(* a string is never equal to the object it serialises, and two objects    *)
(* serialise to the same string exactly when they keep the same content.   *)
(***************************************************************************)
EXTENDS Integers, Sequences, FiniteSets, TLC

(***************************************************************************)
(* Value encoding                                                          *)
(***************************************************************************)
NULL == [null |-> TRUE]
NullStr == "<null>"
NaV == -999999      \* undefined, in a place where a number is expected
NaN == -999998      \* the number NaN
NullNum == -999997  \* null, in a place where a number is expected
NegInf == -999996   \* the number -Infinity

\* typeof x === 'number'
IsNumber(x) == x \notin {NaV, NullNum}
\* typeof x === 'number' && !isNaN(x)
IsNum(x) == x \notin {NaV, NullNum, NaN}
Truthy(x) == x \notin {NaV, NullNum, NaN, 0}
OrZero(x) == IF Truthy(x) THEN x ELSE 0
Max(a, b) == IF a >= b THEN a ELSE b

\* Arithmetic of the language: undefined converts to NaN, null to 0, and NaN
\* is absorbing.
\* (The operations are functions so that an operand is evaluated once.)
ToNumber[x \in Int] == IF x = NaV THEN NaN ELSE IF x = NullNum THEN 0 ELSE x
PlusN[x \in Int, y \in Int] == IF x = NaN \/ y = NaN THEN NaN ELSE x + y
MinusN[x \in Int, y \in Int] == IF x = NaN \/ y = NaN THEN NaN ELSE x - y
TimesN[x \in Int, y \in Int] == IF x = NaN \/ y = NaN THEN NaN ELSE x * y
OverN[x \in Int, y \in Int] == IF x = NaN \/ y = NaN THEN NaN ELSE x \div y
MaxN[x \in Int, y \in Int] == IF x = NaN \/ y = NaN THEN NaN ELSE Max(x, y)
Plus(a, b) == PlusN[ToNumber[a], ToNumber[b]]
Minus(a, b) == MinusN[ToNumber[a], ToNumber[b]]
Times(a, b) == TimesN[ToNumber[a], ToNumber[b]]
\* a / b for a divisor that is not zero.
Over(a, b) == OverN[ToNumber[a], ToNumber[b]]
\* Math.max(0, x)
MathMax0(x) == MaxN[0, ToNumber[x]]
\* x > 0 and x <= 0: every comparison with NaN is false.
PositiveN[x \in Int] == x # NaN /\ x > 0
NotPositiveN[x \in Int] == x # NaN /\ x <= 0
Positive(x) == PositiveN[ToNumber[x]]
NotPositive(x) == NotPositiveN[ToNumber[x]]


\* JSON.parse(JSON.stringify(x)) of a number: NaN and the infinities are
\* written as null; a property that is undefined is left out and reads as
\* undefined again.
JSONnumber(x) == IF x \in {NaN, NegInf} THEN NullNum ELSE x

\* The properties that hold numbers, objects and lists in a Dataset, in the
\* scenarios and in a computation result.
NumberFields ==
  {"price", "dineIn", "takeaway", "delivery", "qtyG", "unitCostPerKg", "yieldPercent",
   "wastePercent", "qtyUnit", "unitCost", "forecastDailyUnits", "paymentFeePercent",
   "deliveryCommissionPercent", "kw", "hoursPerDay", "ratePerKwh", "kgPerBatch",
   "batchesPerDay", "ratePerKg", "m3PerDay", "ratePerM3", "wagePerHour", "daysPerWeek",
   "amountPerMonth", "revenue", "cogs", "grossProfit", "operatingExpenses",
   "operatingProfit", "netProfit", "primeCostPct", "foodCostPct", "laborPct", "cmPct",
   "bepUnits", "bepPerDay", "safetyMargin", "avgTicket", "vc", "cm", "change", "impact"}
ObjectFields ==
  {"channelMix", "packaging", "salesModel", "pnl", "daily", "monthly", "kpis", "sensitivity"}
ListFields == {"menus", "bom", "utilities", "labor", "fixedCosts", "series"}

\* What JSON.stringify keeps of a value.
RECURSIVE JSONvalue(_)
JSONvalue(x) ==
  IF x = NULL THEN NULL
  ELSE [f \in DOMAIN x |->
          IF f \in NumberFields THEN JSONnumber(x[f])
          ELSE IF f \in ObjectFields THEN JSONvalue(x[f])
          ELSE IF f \in ListFields THEN [i \in 1..Len(x[f]) |-> JSONvalue(x[f][i])]
          ELSE x[f]]

JSONstringify(x) == CHOOSE s \in {[json |-> JSONvalue(v)] : v \in {x}} : TRUE
JSONparse(s) == s.json

RECURSIVE Join(_)
Join(s) ==
  IF s = <<>> THEN ""
  ELSE IF Len(s) = 1 THEN s[1]
  ELSE s[1] \o ", " \o Join(Tail(s))

Prefixed(prefix, msgs) == [i \in 1..Len(msgs) |-> prefix \o msgs[i]]

RECURSIVE Flatten(_)
Flatten(ss) == IF ss = <<>> THEN <<>> ELSE Head(ss) \o Flatten(Tail(ss))

Cond(b, msg) == IF b THEN <<msg>> ELSE <<>>

(***************************************************************************)
(* FinancialDataValidator                                                  *)
(***************************************************************************)
MIN_PRICE_CENTS == 1
MAX_PRICE == 10000
MIN_QUANTITY == 0
MAX_QUANTITY == 10000
MIN_HOURS == 0
MAX_HOURS == 24
MIN_DAYS == 0
MAX_DAYS == 7

ValidationResult_Strict(errors, warnings) ==
  [isValid |-> (Len(errors) = 0 /\ Len(warnings) = 0), errors |-> errors,
   warnings |-> warnings]

ValidationResult(errors, warnings) ==
  [isValid |-> (Len(errors) = 0), errors |-> errors, warnings |-> warnings]

validateBOMItem(bomItem) ==
  LET nameErr == Cond(bomItem.item = "", "Item name is required")
      qtyErr ==
        IF ~IsNum(bomItem.qtyG) THEN <<"Quantity (grams) must be a valid number">>
        ELSE Cond(bomItem.qtyG < MIN_QUANTITY, "Quantity must be at least 0")
      qtyWarn ==
        Cond(IsNum(bomItem.qtyG) /\ bomItem.qtyG > MAX_QUANTITY,
             "Quantity seems high: " \o ToString(bomItem.qtyG) \o "g. Please verify.")
      costErr ==
        IF ~IsNum(bomItem.unitCostPerKg) THEN <<"Unit cost per kg must be a valid number">>
        ELSE Cond(bomItem.unitCostPerKg < 0, "Unit cost cannot be negative")
      costWarn ==
        Cond(IsNum(bomItem.unitCostPerKg) /\ bomItem.unitCostPerKg > 1000,
             "Unit cost seems high: " \o ToString(bomItem.unitCostPerKg) \o " THB/kg. Please verify.")
      yieldErr ==
        IF ~IsNum(bomItem.yieldPercent) THEN <<"Yield percentage must be a valid number">>
        ELSE Cond(bomItem.yieldPercent <= 0, "Yield percentage must be greater than 0")
      yieldWarn ==
        Cond(IsNum(bomItem.yieldPercent) /\ bomItem.yieldPercent > 100,
             "Yield percentage (" \o ToString(bomItem.yieldPercent) \o "%) seems high. Please verify.")
      wasteErr ==
        IF ~IsNum(bomItem.wastePercent) THEN <<"Waste percentage must be a valid number">>
        ELSE Cond(bomItem.wastePercent < 0, "Waste percentage cannot be negative")
      wasteWarn ==
        Cond(IsNum(bomItem.wastePercent) /\ bomItem.wastePercent > 50,
             "Waste percentage (" \o ToString(bomItem.wastePercent) \o "%) seems high. Please verify.")
      packErr ==
        IF bomItem.packaging = NULL THEN <<>>
        ELSE Cond(~IsNum(bomItem.packaging.qtyUnit), "Packaging quantity must be a valid number")
             \o (IF ~IsNum(bomItem.packaging.unitCost)
                 THEN <<"Packaging unit cost must be a valid number">>
                 ELSE Cond(bomItem.packaging.unitCost < 0, "Packaging unit cost cannot be negative"))
  IN ValidationResult(nameErr \o qtyErr \o costErr \o yieldErr \o wasteErr \o packErr,
                      qtyWarn \o costWarn \o yieldWarn \o wasteWarn)

BOMLabel(index) == "BOM item " \o ToString(index) \o ": "

validateMenuItem(menuItem) ==
  LET idErr == Cond(menuItem.id = "", "Menu ID is required and must be a string")
      nameErr == Cond(menuItem.name = "", "Menu name is required and must be a string")
      priceErr ==
        IF ~IsNum(menuItem.price) THEN <<"Price must be a valid number">>
        ELSE Cond(menuItem.price * 100 < MIN_PRICE_CENTS, "Price must be at least 0.01")
      priceWarn ==
        Cond(IsNum(menuItem.price) /\ menuItem.price > MAX_PRICE,
             "Price seems high: " \o ToString(menuItem.price) \o ". Please verify.")
      total ==
        IF menuItem.channelMix = NULL THEN 0
        ELSE OrZero(menuItem.channelMix.dineIn) + OrZero(menuItem.channelMix.takeaway)
             + OrZero(menuItem.channelMix.delivery)
      mixErr ==
        IF menuItem.channelMix = NULL THEN <<"Channel mix is required">>
        ELSE Cond(total <= 0, "Channel mix total must be greater than 0")
      mixWarn ==
        Cond(menuItem.channelMix # NULL /\ total > 15,
             "Channel mix total (" \o ToString(total) \o "/10) seems high. Please verify.")
      bomRes == [i \in 1..Len(menuItem.bom) |-> validateBOMItem(menuItem.bom[i])]
      bomErr == Flatten([i \in 1..Len(bomRes) |-> Prefixed(BOMLabel(i), bomRes[i].errors)])
      bomWarn == Flatten([i \in 1..Len(bomRes) |-> Prefixed(BOMLabel(i), bomRes[i].warnings)])
  IN ValidationResult(idErr \o nameErr \o priceErr \o mixErr \o bomErr,
                      priceWarn \o mixWarn \o bomWarn)

validateSalesModel(salesModel) ==
  LET unitsErr ==
        IF ~IsNum(salesModel.forecastDailyUnits) THEN <<"Daily units forecast must be a valid number">>
        ELSE Cond(salesModel.forecastDailyUnits < 1, "Daily units forecast must be at least 1")
      unitsWarn ==
        Cond(IsNum(salesModel.forecastDailyUnits) /\ salesModel.forecastDailyUnits > 1000,
             "Daily units forecast (" \o ToString(salesModel.forecastDailyUnits)
               \o ") seems high. Please verify.")
      feeErr ==
        IF ~IsNum(salesModel.paymentFeePercent) THEN <<"Payment fee percentage must be a valid number">>
        ELSE Cond(salesModel.paymentFeePercent < 0, "Payment fee percentage cannot be negative")
      feeWarn ==
        Cond(IsNum(salesModel.paymentFeePercent) /\ salesModel.paymentFeePercent > 10,
             "Payment fee (" \o ToString(salesModel.paymentFeePercent) \o "%) seems high. Please verify.")
      comErr ==
        IF ~IsNum(salesModel.deliveryCommissionPercent)
        THEN <<"Delivery commission percentage must be a valid number">>
        ELSE Cond(salesModel.deliveryCommissionPercent < 0,
                  "Delivery commission percentage cannot be negative")
      comWarn ==
        Cond(IsNum(salesModel.deliveryCommissionPercent) /\ salesModel.deliveryCommissionPercent > 50,
             "Delivery commission (" \o ToString(salesModel.deliveryCommissionPercent)
               \o "%) seems high. Please verify.")
  IN ValidationResult(unitsErr \o feeErr \o comErr, unitsWarn \o feeWarn \o comWarn)

validateLaborItem(laborItem) ==
  LET idErr == Cond(laborItem.id = "", "Labor ID is required")
      roleErr == Cond(laborItem.role = "", "Role is required")
      typeErr == Cond(laborItem.type \notin {"direct", "indirect"},
                      "Type must be either \"direct\" or \"indirect\"")
      wageErr ==
        IF ~IsNum(laborItem.wagePerHour) THEN <<"Wage per hour must be a valid number">>
        ELSE Cond(laborItem.wagePerHour < 0, "Wage cannot be negative")
      wageWarn ==
        Cond(IsNum(laborItem.wagePerHour) /\ laborItem.wagePerHour > 1000,
             "Wage (" \o ToString(laborItem.wagePerHour) \o " THB/hour) seems high. Please verify.")
      hoursErr ==
        IF ~IsNum(laborItem.hoursPerDay) THEN <<"Hours per day must be a valid number">>
        ELSE Cond(laborItem.hoursPerDay < MIN_HOURS, "Hours per day must be at least 0")
             \o Cond(laborItem.hoursPerDay > MAX_HOURS, "Hours per day cannot exceed 24")
      daysErr ==
        IF ~IsNum(laborItem.daysPerWeek) THEN <<"Days per week must be a valid number">>
        ELSE Cond(laborItem.daysPerWeek < MIN_DAYS, "Days per week must be at least 0")
             \o Cond(laborItem.daysPerWeek > MAX_DAYS, "Days per week cannot exceed 7")
  IN ValidationResult(idErr \o roleErr \o typeErr \o wageErr \o hoursErr \o daysErr, wageWarn)

NumReq(v, missing, bad, isBad) ==
  IF ~IsNum(v) THEN <<missing>> ELSE Cond(isBad, bad)

validateUtilityItem(utilityItem) ==
  LET idErr == Cond(utilityItem.id = "", "Utility ID is required")
      typeErr == Cond(utilityItem.type \notin {"electric", "lpg", "water"},
                      "Type must be \"electric\", \"lpg\", or \"water\"")
      devErr == Cond(utilityItem.device = "", "Device name is required")
      kindErr ==
        IF utilityItem.type = "electric" THEN
             NumReq(utilityItem.kw, "KW rating is required for electric devices",
                    "KW rating must be greater than 0", utilityItem.kw <= 0)
          \o NumReq(utilityItem.hoursPerDay, "Hours per day is required for electric devices",
                    "Hours per day must be between 0 and 24",
                    utilityItem.hoursPerDay < 0 \/ utilityItem.hoursPerDay > 24)
          \o NumReq(utilityItem.ratePerKwh, "Rate per KWh is required for electric devices",
                    "Rate per KWh cannot be negative", utilityItem.ratePerKwh < 0)
        ELSE IF utilityItem.type = "lpg" THEN
             NumReq(utilityItem.kgPerBatch, "KG per batch is required for LPG devices",
                    "KG per batch must be greater than 0", utilityItem.kgPerBatch <= 0)
          \o NumReq(utilityItem.batchesPerDay, "Batches per day is required for LPG devices",
                    "Batches per day cannot be negative", utilityItem.batchesPerDay < 0)
          \o NumReq(utilityItem.ratePerKg, "Rate per KG is required for LPG devices",
                    "Rate per KG cannot be negative", utilityItem.ratePerKg < 0)
        ELSE IF utilityItem.type = "water" THEN
             NumReq(utilityItem.m3PerDay, "M3 per day is required for water devices",
                    "M3 per day cannot be negative", utilityItem.m3PerDay < 0)
          \o NumReq(utilityItem.ratePerM3, "Rate per M3 is required for water devices",
                    "Rate per M3 cannot be negative", utilityItem.ratePerM3 < 0)
        ELSE <<>>
  IN ValidationResult(idErr \o typeErr \o devErr \o kindErr, <<>>)

validateFixedCost(fixedCost) ==
  LET idErr == Cond(fixedCost.id = "", "Fixed cost ID is required")
      nameErr == Cond(fixedCost.name = "", "Fixed cost name is required")
      amtErr ==
        IF ~IsNum(fixedCost.amountPerMonth) THEN <<"Amount per month must be a valid number">>
        ELSE Cond(fixedCost.amountPerMonth < 0, "Amount per month cannot be negative")
      amtWarn ==
        Cond(IsNum(fixedCost.amountPerMonth) /\ fixedCost.amountPerMonth > 100000,
             "Amount per month (" \o ToString(fixedCost.amountPerMonth)
               \o " THB) seems high. Please verify.")
  IN ValidationResult(idErr \o nameErr \o amtErr, amtWarn)

\* Messages of one entity collection, each prefixed with the entity's index.
Collect(label, results, field) ==
  Flatten([i \in 1..Len(results) |->
             Prefixed(label \o " " \o ToString(i) \o ": ", results[i][field])])

\* A null entry of a collection makes the per-entity validator read a
\* property of null: validateAllData throws a TypeError.
validateAllDataThrows(data) ==
  /\ data # NULL
  /\ \/ \E i \in 1..Len(data.menus) : data.menus[i] = NULL
     \/ \E i \in 1..Len(data.labor) : data.labor[i] = NULL
     \/ \E i \in 1..Len(data.utilities) : data.utilities[i] = NULL
     \/ \E i \in 1..Len(data.fixedCosts) : data.fixedCosts[i] = NULL

validateAllData(data) ==
  IF data = NULL THEN ValidationResult(<<"No data available for validation">>, <<>>)
  ELSE
    LET menuRes == [i \in 1..Len(data.menus) |-> validateMenuItem(data.menus[i])]
        salesRes == IF data.salesModel = NULL THEN ValidationResult(<<>>, <<>>)
                    ELSE validateSalesModel(data.salesModel)
        laborRes == [i \in 1..Len(data.labor) |-> validateLaborItem(data.labor[i])]
        utilRes == [i \in 1..Len(data.utilities) |-> validateUtilityItem(data.utilities[i])]
        costRes == [i \in 1..Len(data.fixedCosts) |-> validateFixedCost(data.fixedCosts[i])]
        all(field) ==
             Collect("Menu", menuRes, field)
          \o Prefixed("Sales Model: ", salesRes[field])
          \o Collect("Labor", laborRes, field)
          \o Collect("Utility", utilRes, field)
          \o Collect("Fixed Cost", costRes, field)
    IN ValidationResult(all("errors"), all("warnings"))

(***************************************************************************)
(* FinanceEngine: the derivation pipeline (pure functions of the Dataset)  *)
(*                                                                         *)
(* Money results are in hundredths of a baht; a quotient is truncated      *)
(* where the source keeps a floating-point fraction.                       *)
(***************************************************************************)
\* A value of a list-typed field that is an object but not an array, and
\* Array.isArray.
NotAList == <<[notAList |-> TRUE]>>
IsArray(x) == x # NotAList

RECURSIVE SumSeq(_)
SumSeq(s) == IF s = <<>> THEN 0 ELSE Plus(Head(s), SumSeq(Tail(s)))

\* FinanceEngine.validateData
validateData(data) ==
  /\ data # NULL
  /\ IsArray(data.menus) /\ Len(data.menus) > 0
  /\ data.salesModel # NULL
  /\ IsNumber(data.salesModel.forecastDailyUnits)
  /\ IsArray(data.utilities) /\ IsArray(data.labor) /\ IsArray(data.fixedCosts)

menuRevenue_Signed(menu, units) ==
  IF menu = NULL THEN 0
  ELSE IF ~IsNumber(menu.price) \/ menu.channelMix = NULL THEN 0
  ELSE IF \/ ~IsNumber(menu.channelMix.dineIn)
          \/ ~IsNumber(menu.channelMix.takeaway)
          \/ ~IsNumber(menu.channelMix.delivery) THEN 0
  ELSE LET menuUnitsTenths ==
             Times(units, Plus(Plus(menu.channelMix.dineIn, menu.channelMix.takeaway),
                               menu.channelMix.delivery))
       IN Times(Times(menu.price, menuUnitsTenths), 10)

menuRevenue(menu, units) ==
  IF menu = NULL THEN 0
  ELSE IF ~IsNumber(menu.price) \/ menu.channelMix = NULL THEN 0
  ELSE IF \/ ~IsNumber(menu.channelMix.dineIn)
          \/ ~IsNumber(menu.channelMix.takeaway)
          \/ ~IsNumber(menu.channelMix.delivery) THEN 0
  ELSE LET validDineIn == MathMax0(menu.channelMix.dineIn)
           validTakeaway == MathMax0(menu.channelMix.takeaway)
           validDelivery == MathMax0(menu.channelMix.delivery)
           menuUnitsTenths == Times(units, Plus(Plus(validDineIn, validTakeaway), validDelivery))
       IN Times(Times(menu.price, menuUnitsTenths), 10)

calculateDailyRevenue(data) ==
  IF data.salesModel = NULL THEN 0
  ELSE IF ~IsNumber(data.salesModel.forecastDailyUnits) THEN 0
  ELSE IF ~IsArray(data.menus) THEN 0
  ELSE SumSeq([i \in 1..Len(data.menus) |->
                 menuRevenue(data.menus[i], data.salesModel.forecastDailyUnits)])

bomItemCost_NoWasteClamp(bomItem) ==
  IF bomItem = NULL THEN 0
  ELSE IF bomItem.packaging # NULL THEN
    IF ~IsNumber(bomItem.packaging.qtyUnit) \/ ~IsNumber(bomItem.packaging.unitCost) THEN 0
    ELSE Times(Times(bomItem.packaging.qtyUnit, bomItem.packaging.unitCost), 100)
  ELSE IF \/ ~IsNumber(bomItem.qtyG) \/ ~IsNumber(bomItem.unitCostPerKg)
          \/ ~IsNumber(bomItem.yieldPercent) \/ ~IsNumber(bomItem.wastePercent) THEN 0
  ELSE IF NotPositive(bomItem.yieldPercent) THEN 0
  ELSE Over(Times(Times(bomItem.qtyG, Plus(100, bomItem.wastePercent)), bomItem.unitCostPerKg),
            Times(10, bomItem.yieldPercent))

bomItemCost(bomItem) ==
  IF bomItem = NULL THEN 0
  ELSE IF bomItem.packaging # NULL THEN
    IF ~IsNumber(bomItem.packaging.qtyUnit) \/ ~IsNumber(bomItem.packaging.unitCost) THEN 0
    ELSE Times(Times(bomItem.packaging.qtyUnit, bomItem.packaging.unitCost), 100)
  ELSE IF \/ ~IsNumber(bomItem.qtyG) \/ ~IsNumber(bomItem.unitCostPerKg)
          \/ ~IsNumber(bomItem.yieldPercent) \/ ~IsNumber(bomItem.wastePercent) THEN 0
  ELSE IF NotPositive(bomItem.yieldPercent) THEN 0
  ELSE LET wastePercent == MathMax0(bomItem.wastePercent)
       IN Over(Times(Times(bomItem.qtyG, Plus(100, wastePercent)), bomItem.unitCostPerKg),
               Times(10, bomItem.yieldPercent))

calculateVariableCostPerUnit(menu) ==
  IF menu = NULL THEN 0
  ELSE IF "bom" \notin DOMAIN menu THEN 0
  ELSE IF ~IsArray(menu.bom) THEN 0
  ELSE SumSeq([i \in 1..Len(menu.bom) |-> bomItemCost(menu.bom[i])])

calculateDailyCOGS(data) ==
  SumSeq([i \in 1..Len(data.menus) |->
            Times(calculateVariableCostPerUnit(data.menus[i]),
                  data.salesModel.forecastDailyUnits)])

calculateMonthlyFixedCosts(data) ==
  SumSeq([i \in 1..Len(data.fixedCosts) |-> Times(data.fixedCosts[i].amountPerMonth, 100)])

calculateMonthlyLaborCosts(data) ==
  SumSeq([i \in 1..Len(data.labor) |->
            Times(data.labor[i].wagePerHour,
                  Times(Times(data.labor[i].hoursPerDay, data.labor[i].daysPerWeek), 433))])

utilityDailyCost(utility) ==
  IF /\ utility.type = "electric" /\ Truthy(utility.kw)
     /\ Truthy(utility.hoursPerDay) /\ Truthy(utility.ratePerKwh)
  THEN utility.kw * utility.hoursPerDay * utility.ratePerKwh * 100
  ELSE IF /\ utility.type = "lpg" /\ Truthy(utility.kgPerBatch)
          /\ Truthy(utility.batchesPerDay) /\ Truthy(utility.ratePerKg)
  THEN utility.kgPerBatch * utility.batchesPerDay * utility.ratePerKg * 100
  ELSE IF utility.type = "water" /\ Truthy(utility.m3PerDay) /\ Truthy(utility.ratePerM3)
  THEN utility.m3PerDay * utility.ratePerM3 * 100
  ELSE 0

calculateMonthlyUtilityCosts(data) ==
  SumSeq([i \in 1..Len(data.utilities) |-> utilityDailyCost(data.utilities[i]) * 30])

calculatePnL(data) ==
  LET dailyRevenue == calculateDailyRevenue(data)
      dailyCOGS == calculateDailyCOGS(data)
      monthlyFixedCosts == calculateMonthlyFixedCosts(data)
      monthlyLaborCosts == calculateMonthlyLaborCosts(data)
      monthlyUtilityCosts == calculateMonthlyUtilityCosts(data)
      monthlyExpenses == Plus(Plus(monthlyFixedCosts, monthlyLaborCosts), monthlyUtilityCosts)
      grossProfitDaily == Minus(dailyRevenue, dailyCOGS)
      operatingExpensesDaily == Over(monthlyExpenses, 30)
      operatingProfitDaily == Minus(grossProfitDaily, operatingExpensesDaily)
  IN [daily |-> [revenue |-> dailyRevenue, cogs |-> dailyCOGS,
                 grossProfit |-> grossProfitDaily,
                 operatingExpenses |-> operatingExpensesDaily,
                 operatingProfit |-> operatingProfitDaily],
      monthly |-> [revenue |-> Times(dailyRevenue, 30), cogs |-> Times(dailyCOGS, 30),
                   grossProfit |-> Times(grossProfitDaily, 30),
                   operatingExpenses |-> monthlyExpenses,
                   operatingProfit |-> Times(operatingProfitDaily, 30)]]

getDefaultFinancialMetrics ==
  [revenue |-> 0, grossProfit |-> 0, operatingProfit |-> 0, netProfit |-> 0,
   primeCostPct |-> 0, foodCostPct |-> 0, laborPct |-> 0, cmPct |-> 0,
   bepUnits |-> 0, bepPerDay |-> 0, safetyMargin |-> 0, avgTicket |-> 0]

calculateKPIs_Unguarded(data, pnl) ==
  IF pnl = NULL THEN getDefaultFinancialMetrics
  ELSE IF ~IsArray(data.menus) THEN getDefaultFinancialMetrics
  ELSE IF Len(data.menus) = 0 THEN getDefaultFinancialMetrics
  ELSE
    LET revenue == OrZero(pnl.daily.revenue)
        grossProfit == OrZero(pnl.daily.grossProfit)
        operatingProfit == OrZero(pnl.daily.operatingProfit)
        n == Len(data.menus)
        totalCM == SumSeq([i \in 1..n |->
                     IF data.menus[i] = NULL THEN 0
                     ELSE IF ~IsNumber(data.menus[i].price) THEN 0
                     ELSE Minus(Times(data.menus[i].price, 100),
                                calculateVariableCostPerUnit(data.menus[i]))])
        avgCM == Over(totalCM, n)
        monthlyFixedTotal == Plus(Plus(calculateMonthlyFixedCosts(data),
                                       calculateMonthlyLaborCosts(data)),
                                  calculateMonthlyUtilityCosts(data))
        bepUnits == IF Positive(avgCM) THEN Over(monthlyFixedTotal, avgCM) ELSE 0
        bepPerDay == Over(bepUnits, 30)
        directLaborCost ==
          SumSeq([i \in 1..Len(data.labor) |->
                    IF data.labor[i] = NULL THEN 0
                    ELSE IF data.labor[i].type # "direct" THEN 0
                    ELSE IF ~IsNumber(data.labor[i].wagePerHour)
                            \/ ~IsNumber(data.labor[i].hoursPerDay) THEN 0
                    ELSE Times(Times(data.labor[i].wagePerHour, data.labor[i].hoursPerDay), 100)])
        foodCost == OrZero(pnl.daily.cogs)
        primeCost == Plus(foodCost, directLaborCost)
        primeCostPct == IF ToNumber[revenue] # 0 THEN Over(Times(primeCost, 100), revenue) ELSE NaN
        foodCostPct == IF ToNumber[revenue] # 0 THEN Over(Times(foodCost, 100), revenue) ELSE NaN
        laborPct == IF ToNumber[revenue] # 0 THEN Over(Times(directLaborCost, 100), revenue) ELSE NaN
        avgMenuPrice ==
          Over(SumSeq([i \in 1..n |->
                         IF data.menus[i] = NULL THEN 0
                         ELSE Times(OrZero(data.menus[i].price), 100)]), n)
        cmPct == IF Positive(avgMenuPrice) THEN Over(Times(avgCM, 100), avgMenuPrice) ELSE 0
        forecastUnits ==
          IF data.salesModel = NULL THEN 0 ELSE OrZero(data.salesModel.forecastDailyUnits)
        safetyMargin ==
          IF Positive(forecastUnits)
          THEN Over(Times(Minus(forecastUnits, bepPerDay), 100), forecastUnits) ELSE 0
        avgTicket == IF Positive(forecastUnits) THEN Over(revenue, forecastUnits) ELSE 0
    IN [revenue |-> revenue, grossProfit |-> grossProfit,
        operatingProfit |-> operatingProfit, netProfit |-> operatingProfit,
        primeCostPct |-> primeCostPct, foodCostPct |-> foodCostPct,
        laborPct |-> laborPct, cmPct |-> cmPct, bepUnits |-> bepUnits,
        bepPerDay |-> bepPerDay, safetyMargin |-> safetyMargin, avgTicket |-> avgTicket]

calculateKPIs(data, pnl) ==
  IF pnl = NULL THEN getDefaultFinancialMetrics
  ELSE IF ~IsArray(data.menus) THEN getDefaultFinancialMetrics
  ELSE IF Len(data.menus) = 0 THEN getDefaultFinancialMetrics
  ELSE
    LET revenue == OrZero(pnl.daily.revenue)
        grossProfit == OrZero(pnl.daily.grossProfit)
        operatingProfit == OrZero(pnl.daily.operatingProfit)
        n == Len(data.menus)
        totalCM == SumSeq([i \in 1..n |->
                     IF data.menus[i] = NULL THEN 0
                     ELSE IF ~IsNumber(data.menus[i].price) THEN 0
                     ELSE Minus(Times(data.menus[i].price, 100),
                                calculateVariableCostPerUnit(data.menus[i]))])
        avgCM == Over(totalCM, n)
        monthlyFixedTotal == Plus(Plus(calculateMonthlyFixedCosts(data),
                                       calculateMonthlyLaborCosts(data)),
                                  calculateMonthlyUtilityCosts(data))
        bepUnits == IF Positive(avgCM) THEN Over(monthlyFixedTotal, avgCM) ELSE 0
        bepPerDay == Over(bepUnits, 30)
        directLaborCost ==
          SumSeq([i \in 1..Len(data.labor) |->
                    IF data.labor[i] = NULL THEN 0
                    ELSE IF data.labor[i].type # "direct" THEN 0
                    ELSE IF ~IsNumber(data.labor[i].wagePerHour)
                            \/ ~IsNumber(data.labor[i].hoursPerDay) THEN 0
                    ELSE Times(Times(data.labor[i].wagePerHour, data.labor[i].hoursPerDay), 100)])
        foodCost == OrZero(pnl.daily.cogs)
        primeCost == Plus(foodCost, directLaborCost)
        primeCostPct == IF Positive(revenue) THEN Over(Times(primeCost, 100), revenue) ELSE 0
        foodCostPct == IF Positive(revenue) THEN Over(Times(foodCost, 100), revenue) ELSE 0
        laborPct == IF Positive(revenue) THEN Over(Times(directLaborCost, 100), revenue) ELSE 0
        avgMenuPrice ==
          Over(SumSeq([i \in 1..n |->
                         IF data.menus[i] = NULL THEN 0
                         ELSE Times(OrZero(data.menus[i].price), 100)]), n)
        cmPct == IF Positive(avgMenuPrice) THEN Over(Times(avgCM, 100), avgMenuPrice) ELSE 0
        forecastUnits ==
          IF data.salesModel = NULL THEN 0 ELSE OrZero(data.salesModel.forecastDailyUnits)
        safetyMargin ==
          IF Positive(forecastUnits)
          THEN Over(Times(Minus(forecastUnits, bepPerDay), 100), forecastUnits) ELSE 0
        avgTicket == IF Positive(forecastUnits) THEN Over(revenue, forecastUnits) ELSE 0
    IN [revenue |-> revenue, grossProfit |-> grossProfit,
        operatingProfit |-> operatingProfit, netProfit |-> operatingProfit,
        primeCostPct |-> primeCostPct, foodCostPct |-> foodCostPct,
        laborPct |-> laborPct, cmPct |-> cmPct, bepUnits |-> bepUnits,
        bepPerDay |-> bepPerDay, safetyMargin |-> safetyMargin, avgTicket |-> avgTicket]

\* cmPct divides by the price without a guard: a zero price gives NaN (0/0)
\* or -Infinity (the margin of a free menu is never positive).
calculateMenuMetrics(data) ==
  [i \in 1..Len(data.menus) |->
     LET menu == data.menus[i]
         vc == calculateVariableCostPerUnit(menu)
         cm == Minus(Times(menu.price, 100), vc)
     IN [id |-> menu.id, name |-> menu.name, price |-> menu.price, vc |-> vc, cm |-> cm,
         cmPct |-> IF ToNumber[menu.price] = 0
                   THEN (IF ToNumber[cm] \in {0, NaN} THEN NaN ELSE NegInf)
                   ELSE Over(cm, menu.price)]]

calculateSensitivity ==
  [variable |-> "ingredient_cost",
   series |-> << [change |-> -10, impact |-> 150], [change |-> -5, impact |-> 75],
                 [change |-> 0, impact |-> 0], [change |-> 5, impact |-> -75],
                 [change |-> 10, impact |-> -150] >>]

\* btoa(JSON.stringify(data)).substring(0, 8) encodes the first six bytes of
\* the serialisation, which are the opening brace and the first key: the tag
\* does not depend on any value held by the Dataset.
getDataVersion(data) == IF data = NULL THEN "bnVsbA==" ELSE "eyJtZW51"

getDefaultComputationResult(data, time) ==
  [pnl |-> [daily |-> [revenue |-> 0, cogs |-> 0, grossProfit |-> 0,
                       operatingExpenses |-> 0, operatingProfit |-> 0],
            monthly |-> [revenue |-> 0, cogs |-> 0, grossProfit |-> 0,
                         operatingExpenses |-> 0, operatingProfit |-> 0]],
   kpis |-> getDefaultFinancialMetrics,
   menus |-> <<>>,
   sensitivity |-> [variable |-> "ingredient_cost", series |-> <<>>],
   computedAt |-> time,
   dataVersion |-> getDataVersion(data),
   error |-> "Computation failed due to invalid data"]

\* The derivation reads a property of a null entry: a TypeError is raised
\* inside compute (calculateMonthlyFixedCosts, calculateMonthlyLaborCosts,
\* calculateMonthlyUtilityCosts, calculateMenuMetrics).
derivationThrows(data) ==
  \/ \E i \in 1..Len(data.fixedCosts) : data.fixedCosts[i] = NULL
  \/ \E i \in 1..Len(data.labor) : data.labor[i] = NULL
  \/ \E i \in 1..Len(data.utilities) : data.utilities[i] = NULL
  \/ \E i \in 1..Len(data.menus) : data.menus[i] = NULL

compute_NoCatch(data, time) ==
  IF ~validateData(data) THEN getDefaultComputationResult(data, time)
  ELSE IF derivationThrows(data) THEN [thrown |-> "TypeError"]
  ELSE LET pnl == calculatePnL(data)
       IN [pnl |-> pnl,
           kpis |-> calculateKPIs(data, pnl),
           menus |-> calculateMenuMetrics(data),
           sensitivity |-> calculateSensitivity,
           computedAt |-> time,
           dataVersion |-> getDataVersion(data),
           error |-> NullStr]

\* FinanceEngine.compute, on the Dataset d that this.data holds
compute(data, time) ==
  CHOOSE result \in
    { IF ~validateData(d) THEN getDefaultComputationResult(d, time)
      ELSE IF derivationThrows(d) THEN getDefaultComputationResult(d, time)
      ELSE CHOOSE r \in
             { [pnl |-> pnl,
                kpis |-> calculateKPIs(d, pnl),
                menus |-> calculateMenuMetrics(d),
                sensitivity |-> calculateSensitivity,
                computedAt |-> time,
                dataVersion |-> getDataVersion(d),
                error |-> NullStr] : pnl \in {calculatePnL(d)} } : TRUE :
        d \in {data} } : TRUE

(***************************************************************************)
(* Bounds of the model                                                     *)
(***************************************************************************)
MaxOps == 2       \* operations issued by the user interface in one run
MaxRefs == 4      \* Dataset root objects alive at the same time

Refs == 1..MaxRefs

(***************************************************************************)
(* The program state                                                       *)
(*                                                                         *)
(* heap maps the identity of a Dataset root object to its content: the     *)
(* engine and the published state hold references to such objects, and the *)
(* engine's mutators change the object in place.                           *)
(***************************************************************************)
VARIABLES
  heap,                 \* Dataset objects: reference -> content (NULL = unused)
  eng,                  \* FinanceEngine: [data (a reference), scenarios]
  storage,              \* localStorage: finance_data, finance_scenarios
  storageFails,         \* environment: localStorage.setItem throws (quota)
  st,                   \* StateManager.state (AppState)
  validationCache,      \* StateManager.validationCache, a set of <<key, result>>
  subscribers,          \* StateManager.subscribers
  updateQueue,          \* StateManager.updateQueue
  isProcessingQueue,    \* StateManager.isProcessingQueue
  queueTimer,           \* the zero-delay timer of updateState is pending
  lastSavedDataString,  \* StateManager.lastSavedDataString
  lastComputationHash,  \* StateManager.lastComputationHash
  syncTimers,           \* pending debounce timers (timer ids)
  syncDue,              \* pending debounce timers whose delay has elapsed
  syncTimeoutId,        \* StateManager.syncTimeoutId (0 = null)
  isSyncInProgress,     \* StateManager.isSyncInProgress
  now,                  \* the clock read by new Date()
  ops,                  \* number of operations issued so far
  obs                   \* observations of the last operation (history)

vars == << heap, eng, storage, storageFails, st, subscribers, validationCache, updateQueue,
           isProcessingQueue, queueTimer, lastSavedDataString, lastComputationHash,
           syncTimers, syncDue, syncTimeoutId, isSyncInProgress, now, ops, obs >>

\* References held by the engine, the published state and queued payloads.
LiveRefs(w) ==
  {w.eng.data, w.st.data}
    \cup {w.updateQueue[i].update.payload.data :
            i \in {j \in 1..Len(w.updateQueue) :
                     /\ w.updateQueue[j].update # NULL
                     /\ w.updateQueue[j].update.type = "DATA_UPDATE"
                     /\ w.updateQueue[j].update.payload # NULL
                     /\ "data" \in DOMAIN w.updateQueue[j].update.payload}}

\* A new object gets the first unused identity.
NewRef(w) == CHOOSE r \in Refs : r \notin LiveRefs(w) /\ \A q \in 1..(r - 1) : q \in LiveRefs(w)
HasFreeRef(w) == \E r \in Refs : r \notin LiveRefs(w)

\* Unreachable objects are collected.
Collected(w) ==
  [w EXCEPT !.heap = [r \in Refs |-> IF r \in LiveRefs(w) THEN w.heap[r] ELSE NULL]]

EngineData(w) == w.heap[w.eng.data]
StateData(w) == IF w.st.data = 0 THEN NULL ELSE w.heap[w.st.data]

(***************************************************************************)
(* FinanceEngine: data management                                          *)
(***************************************************************************)
DefaultData ==
  [menus |-> << [id |-> "m1", name |-> "khao_man_gai", price |-> 50,
                 channelMix |-> [dineIn |-> 7, takeaway |-> 2, delivery |-> 1],
                 bom |-> << [item |-> "chicken_thigh", qtyG |-> 120, unitCostPerKg |-> 70,
                             yieldPercent |-> 85, wastePercent |-> 5, packaging |-> NULL] >>] >>,
   salesModel |-> [forecastDailyUnits |-> 120, paymentFeePercent |-> 2,
                   deliveryCommissionPercent |-> 25],
   utilities |-> << [id |-> "ac_main", type |-> "electric", device |-> "ac", kw |-> 2,
                     hoursPerDay |-> 6, ratePerKwh |-> 5] >>,
   labor |-> << [id |-> "kitchen_chef", role |-> "chef", type |-> "direct",
                 wagePerHour |-> 45, hoursPerDay |-> 8, daysPerWeek |-> 6] >>,
   fixedCosts |-> << [id |-> "internet", name |-> "internet", amountPerMonth |-> 700] >>]

DefaultScenarios ==
  [base |-> [id |-> "base", name |-> "Base"],
   S1 |-> [id |-> "S1", name |-> "Scenario 1"]]

\* FinanceEngine.save: a failing localStorage.setItem is caught and logged.
engineSave(w) ==
  IF w.storageFails
  THEN [w EXCEPT !.obs.lastSaveOk = FALSE, !.obs.saves = @ + 1]
  ELSE [w EXCEPT !.storage = [data |-> JSONstringify(EngineData(w)),
                              scenarios |-> JSONstringify(w.eng.scenarios)],
                 !.obs.lastSaveOk = TRUE, !.obs.saves = @ + 1]

\* History: the counters of persistence requests restart when the Dataset
\* is mutated.
Mutated(w) == [w EXCEPT !.obs.persistReqs = 0, !.obs.persistWrites = 0]

SetEngineData(w, content) == Mutated([w EXCEPT !.heap[w.eng.data] = content])

\* The object spread { ...old, ...updates }.
Merge(old, updates) ==
  [f \in (DOMAIN old) \cup (DOMAIN updates) |->
     IF f \in DOMAIN updates THEN updates[f] ELSE old[f]]

MenuIndex(menus, menuId) ==
  IF \E i \in 1..Len(menus) : menus[i].id = menuId
  THEN CHOOSE i \in 1..Len(menus) :
         menus[i].id = menuId /\ \A j \in 1..(i - 1) : menus[j].id # menuId
  ELSE 0

\* FinanceEngine.updateMenu
engineUpdateMenu(w, menuId, updates) ==
  LET data == EngineData(w)
      menuIndex == MenuIndex(data.menus, menuId)
  IN IF menuIndex > 0
     THEN engineSave(SetEngineData(w, [data EXCEPT !.menus[menuIndex] = Merge(@, updates)]))
     ELSE w

\* FinanceEngine.addMenu
engineAddMenu(w, menu) ==
  LET data == EngineData(w)
  IN IF MenuIndex(data.menus, menu.id) > 0 THEN w
     ELSE engineSave(SetEngineData(w, [data EXCEPT !.menus = Append(@, menu)]))

\* FinanceEngine.deleteMenu
engineDeleteMenu(w, menuId) ==
  LET data == EngineData(w)
      kept == SelectSeq(data.menus, LAMBDA m : m.id # menuId)
  IN IF Len(kept) # Len(data.menus)
     THEN engineSave(SetEngineData(w, [data EXCEPT !.menus = kept]))
     ELSE w

engineUpdateSalesModel(w, updates) ==
  engineSave(SetEngineData(w, [EngineData(w) EXCEPT !.salesModel = Merge(@, updates)]))

engineUpdateUtilities(w, utilities) ==
  engineSave(SetEngineData(w, [EngineData(w) EXCEPT !.utilities = utilities]))

engineUpdateLabor(w, labor) ==
  engineSave(SetEngineData(w, [EngineData(w) EXCEPT !.labor = labor]))

engineUpdateFixedCosts(w, fixedCosts) ==
  engineSave(SetEngineData(w, [EngineData(w) EXCEPT !.fixedCosts = fixedCosts]))

\* FinanceEngine.importJSON.  A document is [parsable, data, scenarios]; the
\* backup restored after a failed validity check is a deep copy, a new object.
engineImportJSON(w, doc) ==
  IF ~doc.parsable
  THEN [w EXCEPT !.obs.importResult =
          [success |-> FALSE, error |-> "JSON parsing failed: Unexpected token"]]
  ELSE IF doc.data = NULL \/ doc.scenarios = NULL
  THEN [w EXCEPT !.obs.importResult =
          [success |-> FALSE,
           error |-> "Invalid data structure: missing data or scenarios"]]
  ELSE IF \/ ~IsArray(doc.data.menus) \/ ~IsArray(doc.data.utilities)
          \/ ~IsArray(doc.data.labor) \/ ~IsArray(doc.data.fixedCosts)
  THEN [w EXCEPT !.obs.importResult =
          [success |-> FALSE,
           error |-> "Invalid data structure: arrays expected for menus, utilities, labor, and fixedCosts"]]
  ELSE
    LET backup == [data |-> JSONparse(JSONstringify(EngineData(w))),
                   scenarios |-> JSONparse(JSONstringify(w.eng.scenarios))]
        ref == NewRef(w)
    IN IF ~validateData(doc.data)
       THEN [Mutated(w) EXCEPT !.heap[ref] = backup.data,
                      !.eng = [data |-> ref, scenarios |-> backup.scenarios],
                      !.obs.importResult =
                        [success |-> FALSE, error |-> "Imported data failed validation"]]
       ELSE LET w1 == [Mutated(w) EXCEPT !.heap[ref] = doc.data,
                                !.eng = [data |-> ref, scenarios |-> doc.scenarios]]
            IN [engineSave(w1) EXCEPT !.obs.importResult =
                  [success |-> TRUE, error |-> NullStr]]

\* FinanceEngine.exportJSON
exportJSON(w) ==
  [json |-> [data |-> JSONvalue(EngineData(w)), scenarios |-> JSONvalue(w.eng.scenarios),
             exportDate |-> w.now]]

\* JSON.parse of an exported string, as importJSON reads it.
ExportedDoc(jsonString) ==
  [parsable |-> TRUE, data |-> JSONparse(jsonString).data,
   scenarios |-> JSONparse(jsonString).scenarios]

\* new FinanceEngine() followed by init(): the built-in default, replaced by
\* what localStorage holds.
engineNew(w) ==
  LET ref == NewRef(w)
  IN [Mutated(w) EXCEPT !.heap[ref] =
                 IF w.storage.data # NULL THEN JSONparse(w.storage.data) ELSE DefaultData,
               !.eng = [data |-> ref,
                        scenarios |-> IF w.storage.scenarios # NULL
                                      THEN JSONparse(w.storage.scenarios)
                                      ELSE DefaultScenarios]]

(***************************************************************************)
(* StateManager: queue of state updates                                    *)
(***************************************************************************)
Update(type, payload) == [type |-> type, payload |-> payload]
LoadingUpdate(isLoading) == Update("LOADING_UPDATE", [isLoading |-> isLoading])
ErrorUpdate(error) == Update("ERROR_UPDATE", [error |-> error])
DataUpdate(data, scenarios) == Update("DATA_UPDATE", [data |-> data, scenarios |-> scenarios])

\* History carried by a queued update: fin marks the last update an
\* operation enqueues, rej the validation message of a rejected operation,
\* late an update enqueued while the queue is being drained.
NoTag == [fin |-> FALSE, rej |-> NullStr, late |-> FALSE]
FinTag == [fin |-> TRUE, rej |-> NullStr, late |-> FALSE]
RejTag(msg) == [fin |-> TRUE, rej |-> msg, late |-> FALSE]

\* StateManager.updateState
updateState(w, update, skipAuto, tag) ==
  LET entry == [update |-> update, opts |-> [skipAuto |-> skipAuto],
                tag |-> [tag EXCEPT !.late = w.isProcessingQueue]]
      w1 == [w EXCEPT !.updateQueue = Append(@, entry),
                      !.obs.fifo = Append(@, entry)]
  IN IF w1.isProcessingQueue THEN w1
     ELSE [w1 EXCEPT !.queueTimer = TRUE]

\* validateAllData without the validationCache.set after a miss.
smValidateAllData_NoStore(w) ==
  LET dataHash == JSONstringify(StateData(w))
      hits == {e \in w.validationCache : e[1] = dataHash}
  IN IF hits # {}
     THEN updateState([w EXCEPT !.obs.cacheHit = TRUE],
                      Update("VALIDATION_UPDATE",
                             [results |-> <<(CHOOSE e \in hits : TRUE)[2]>>]),
                      FALSE, NoTag)
     ELSE IF validateAllDataThrows(StateData(w))
     THEN w
     ELSE LET validationResult == validateAllData(StateData(w))
              w1 == [w EXCEPT !.obs.reran = @ \/ dataHash \in w.obs.ran,
                              !.obs.ran = @ \cup {dataHash}]
          IN updateState(w1, Update("VALIDATION_UPDATE",
                                    [results |-> <<validationResult>>]),
                         FALSE, NoTag)

\* StateManager.validateAllData
smValidateAllData(w) ==
  LET dataHash == JSONstringify(StateData(w))
      hits == {e \in w.validationCache : e[1] = dataHash}
  IN IF hits # {}
     THEN updateState([w EXCEPT !.obs.cacheHit = TRUE],
                      Update("VALIDATION_UPDATE",
                             [results |-> <<(CHOOSE e \in hits : TRUE)[2]>>]),
                      FALSE, NoTag)
     ELSE IF validateAllDataThrows(StateData(w))
     THEN w
     ELSE LET validationResult == validateAllData(StateData(w))
              w1 == [w EXCEPT !.validationCache = @ \cup {<<dataHash, validationResult>>},
                              !.obs.reran = @ \/ dataHash \in w.obs.ran,
                              !.obs.ran = @ \cup {dataHash}]
          IN updateState(w1, Update("VALIDATION_UPDATE",
                                    [results |-> <<validationResult>>]),
                         FALSE, NoTag)

\* StateManager.computeAndValidate
computeAndValidate(w, tag) ==
  IF w.st.data = 0
  THEN updateState(w, LoadingUpdate(FALSE), FALSE, tag)
  ELSE LET computationResult == compute(EngineData(w), w.now)
           w1 == updateState(w, Update("COMPUTATION_UPDATE", [result |-> computationResult]),
                             FALSE, NoTag)
           w2 == smValidateAllData(w1)
       IN updateState(w2, LoadingUpdate(FALSE), FALSE, tag)

\* StateManager.autoSave
autoSave(w) ==
  LET currentDataString == JSONstringify(EngineData(w))
      w0 == [w EXCEPT !.obs.persistReqs = IF @ < 2 THEN @ + 1 ELSE @]
  IN IF w0.lastSavedDataString = currentDataString THEN w0
     ELSE LET w1 == engineSave(w0)
          IN [w1 EXCEPT !.lastSavedDataString = currentDataString,
                        !.obs.persistWrites = @ + 1,
                        !.obs.recordedOk = w1.obs.lastSaveOk]

\* A forceSave that writes without comparing with the last saved content.
forceSave_Always(w) ==
  LET currentDataString == JSONstringify(EngineData(w))
      w1 == engineSave([w EXCEPT !.obs.persistReqs = IF @ < 2 THEN @ + 1 ELSE @])
  IN [w1 EXCEPT !.lastSavedDataString = currentDataString,
                !.obs.persistWrites = @ + 1,
                !.obs.recordedOk = w1.obs.lastSaveOk]

\* StateManager.forceSave
forceSave(w) ==
  LET currentDataString == JSONstringify(EngineData(w))
      w0 == [w EXCEPT !.obs.persistReqs = IF @ < 2 THEN @ + 1 ELSE @]
  IN IF w0.lastSavedDataString # NULL /\ w0.lastSavedDataString = currentDataString
     THEN w0
     ELSE LET w1 == engineSave(w0)
          IN [w1 EXCEPT !.lastSavedDataString = currentDataString,
                        !.obs.persistWrites = @ + 1,
                        !.obs.recordedOk = w1.obs.lastSaveOk]

\* StateManager.validateStateUpdate, validateDataPayload,
\* validateComputationPayload and the checks of applyStateUpdate's switch:
\* the message of the Error thrown for this update, NullStr when none is.
applyFailure(state, update) ==
  IF update = NULL THEN "State update must be an object"
  ELSE IF update.type = "" THEN "State update must have a type"
  ELSE IF update.payload = NULL THEN "State update must have a payload"
  ELSE IF update.type = "DATA_UPDATE" THEN
    IF "data" \in DOMAIN update.payload /\ "scenarios" \in DOMAIN update.payload
    THEN NullStr ELSE "Invalid data update payload"
  ELSE IF update.type = "SCENARIO_UPDATE" THEN
    IF update.payload.scenarioId \in DOMAIN state.scenarios
    THEN NullStr ELSE "Invalid scenario ID: " \o update.payload.scenarioId
  ELSE IF update.type = "COMPUTATION_UPDATE" THEN
    IF "result" \in DOMAIN update.payload
    THEN NullStr ELSE "Invalid computation result payload"
  ELSE IF update.type = "VALIDATION_UPDATE" THEN
    IF "results" \in DOMAIN update.payload
    THEN NullStr ELSE "Validation results must be an array"
  ELSE IF update.type \in {"ERROR_UPDATE", "LOADING_UPDATE"} THEN NullStr
  ELSE "Unsupported update type: " \o update.type

\* A switch whose LOADING_UPDATE leaves the error alone.
applySwitch_StickyError(state, update) ==
  IF update.type = "DATA_UPDATE" THEN
    [state EXCEPT !.data = update.payload.data, !.scenarios = update.payload.scenarios]
  ELSE IF update.type = "SCENARIO_UPDATE" THEN
    [state EXCEPT !.currentScenario = update.payload.scenarioId]
  ELSE IF update.type = "COMPUTATION_UPDATE" THEN
    [state EXCEPT !.computationResult = update.payload.result]
  ELSE IF update.type = "VALIDATION_UPDATE" THEN
    [state EXCEPT !.validationResults = update.payload.results]
  ELSE IF update.type = "ERROR_UPDATE" THEN
    [state EXCEPT !.error = update.payload.error, !.isLoading = FALSE]
  ELSE [state EXCEPT !.isLoading = update.payload.isLoading]

\* The switch of applyStateUpdate, for an update that passed the checks.
applySwitch(state, update) ==
  IF update.type = "DATA_UPDATE" THEN
    [state EXCEPT !.data = update.payload.data, !.scenarios = update.payload.scenarios]
  ELSE IF update.type = "SCENARIO_UPDATE" THEN
    [state EXCEPT !.currentScenario = update.payload.scenarioId]
  ELSE IF update.type = "COMPUTATION_UPDATE" THEN
    [state EXCEPT !.computationResult = update.payload.result]
  ELSE IF update.type = "VALIDATION_UPDATE" THEN
    [state EXCEPT !.validationResults = update.payload.results]
  ELSE IF update.type = "ERROR_UPDATE" THEN
    [state EXCEPT !.error = update.payload.error, !.isLoading = FALSE]
  ELSE \* LOADING_UPDATE
    IF state.isLoading = update.payload.isLoading
    THEN IF update.payload.isLoading THEN [state EXCEPT !.error = NullStr] ELSE state
    ELSE [state EXCEPT !.isLoading = update.payload.isLoading,
                       !.error = IF update.payload.isLoading THEN NullStr ELSE @]

\* A subscriber is [id, kind]; kind says what its callback does with the
\* state it is handed: "plain" keeps it, "throws" raises an exception,
\* "unsubSelf" calls the unsubscribe function that subscribe returned to it.
SubscriberKinds == {"plain", "throws", "unsubSelf"}

\* The index of a callback in the list (indexOf), 0 when it is not there.
SubscriberIndex(subs, id) ==
  IF \E i \in 1..Len(subs) : subs[i].id = id
  THEN CHOOSE i \in 1..Len(subs) : subs[i].id = id /\ \A j \in 1..(i - 1) : subs[j].id # id
  ELSE 0

\* StateManager.subscribe
subscribe(w, callback) == [w EXCEPT !.subscribers = Append(@, callback)]

\* The function returned by subscribe: splice(index, 1).
unsubscribe(w, id) ==
  LET index == SubscriberIndex(w.subscribers, id)
  IN IF index > 0
     THEN [w EXCEPT !.subscribers =
             SubSeq(@, 1, index - 1) \o SubSeq(@, index + 1, Len(@))]
     ELSE w

\* One callback(this.state) inside its try/catch; the delivery is noted.
callSubscriber(w, callback) ==
  LET w1 == [w EXCEPT !.obs.delivered = Append(@, callback.id)]
  IN IF callback.kind = "unsubSelf" THEN unsubscribe(w1, callback.id)
     ELSE w1  \* "plain"; the exception of "throws" is caught and logged

\* Array.prototype.forEach: the indices below the length the list had at the
\* start are visited in order, and an index is visited only if the list
\* still has an element there when its turn comes.
RECURSIVE forEachSubscriber(_, _, _)
forEachSubscriber(w, k, len) ==
  IF k > len THEN w
  ELSE IF k > Len(w.subscribers) THEN forEachSubscriber(w, k + 1, len)
  ELSE forEachSubscriber(callSubscriber(w, w.subscribers[k]), k + 1, len)

\* StateManager.notifySubscribers.  History: missed is set when a
\* subscriber registered at the start was not called exactly once.
notifySubscribers(w) ==
  CHOOSE r \in
    { LET registered == {v.subscribers[i].id : i \in 1..Len(v.subscribers)}
          calls(w1, id) ==
            Cardinality({i \in 1..Len(w1.obs.delivered) : w1.obs.delivered[i] = id})
      IN CHOOSE q \in
           { [w1 EXCEPT !.obs.delivered = <<>>,
                        !.obs.missed = @ \/ (\E id \in registered : calls(w1, id) # 1)] :
               w1 \in { forEachSubscriber([v EXCEPT !.obs.delivered = <<>>], 1,
                                          Len(v.subscribers)) } } : TRUE :
        v \in {w} } : TRUE

\* The catch block of applyStateUpdate: restore the snapshot, enqueue an
\* ERROR_UPDATE unless the update was one, re-throw.  Reading update.type of
\* a null update raises a TypeError inside the handler itself.
applyCatch(w, prevState, update, message) ==
  LET w1 == [w EXCEPT !.st = prevState]
  IN IF update = NULL
     THEN [w1 EXCEPT !.obs.exc = "TypeError: Cannot read properties of null (reading 'type')",
                     !.obs.fail = [seen |-> TRUE, restored |-> (w1.st = prevState),
                                   wasError |-> FALSE, enqueued |-> FALSE,
                                   rethrown |-> FALSE]]
     ELSE IF update.type # "ERROR_UPDATE"
     THEN LET w2 == updateState(w1,
                      ErrorUpdate("State update failed (" \o update.type \o "): " \o message),
                      FALSE, NoTag)
          IN [w2 EXCEPT !.obs.exc = message,
                        !.obs.fail = [seen |-> TRUE, restored |-> (w2.st = prevState),
                                      wasError |-> FALSE, enqueued |-> TRUE,
                                      rethrown |-> TRUE]]
     ELSE [w1 EXCEPT !.obs.exc = message,
                     !.obs.fail = [seen |-> TRUE, restored |-> (w1.st = prevState),
                                   wasError |-> TRUE, enqueued |-> FALSE,
                                   rethrown |-> TRUE]]

\* StateManager.applyStateUpdate
applyStateUpdate(w, update, skipAuto) ==
  LET prevState == w.st
      message == applyFailure(w.st, update)
  IN IF message # NullStr
     THEN applyCatch(w, prevState, update, message)
     ELSE LET w1 == [w EXCEPT !.st = [applySwitch(@, update) EXCEPT !.lastUpdated = w.now]]
              w2 == notifySubscribers(w1)
          IN IF update.type = "DATA_UPDATE" /\ ~skipAuto
             THEN computeAndValidate(autoSave([w2 EXCEPT !.obs.auto = TRUE]), NoTag)
             ELSE w2

\* History: the order in which updates leave the queue.
observeDequeued(w, entry) ==
  [w EXCEPT
     !.obs.fifo = IF @ = <<>> THEN <<>> ELSE Tail(@),
     !.obs.orderOK = @ /\ w.obs.fifo # <<>> /\ Head(w.obs.fifo) = entry,
     !.obs.applied = TRUE,
     !.obs.lateApplied = @ \/ entry.tag.late]

\* History: the loading flag and the error left by the last update of an
\* operation.
observeApplied(w, entry) ==
  [w EXCEPT
     !.obs.finLoading = IF entry.tag.fin THEN @ \/ w.st.isLoading ELSE @,
     !.obs.finSeen = @ \/ entry.tag.fin,
     !.obs.rejSeen = @ \/ (entry.tag.rej # NullStr),
     !.obs.rejLost = IF entry.tag.rej # NullStr THEN @ \/ (w.st.error # entry.tag.rej) ELSE @]

\* History: what an applied update that has to clear the error (a
\* LOADING_UPDATE that enters loading, or the ERROR_UPDATE of clearError)
\* did to an error that was set.
observeErrorCleared(w, prevError, entry) ==
  LET update == entry.update
      clears == /\ update # NULL
                /\ update.payload # NULL
                /\ \/ update.type = "LOADING_UPDATE" /\ update.payload.isLoading
                   \/ update.type = "ERROR_UPDATE" /\ update.payload.error = NullStr
  IN CHOOSE r \in
       { [v EXCEPT !.obs.errCleared = @ \/ (clears /\ prevError # NullStr),
                   !.obs.errKept = @ \/ (clears /\ v.st.error # NullStr)] : v \in {w} } : TRUE

\* A drain that takes the newest update first (pop instead of shift).
dequeue_Last(queue) ==
  [entry |-> queue[Len(queue)], rest |-> SubSeq(queue, 1, Len(queue) - 1)]

\* The element the drain takes from the queue, and what it leaves.
dequeue(queue) == [entry |-> Head(queue), rest |-> Tail(queue)]

\* History: whether the update just applied ran auto-save and recomputation,
\* and whether it was allowed to.
observeAuto(w, d) ==
  [w EXCEPT
     !.obs.autoSeen = @ \/ w.obs.auto,
     !.obs.batchSkipped = @ \/ (d.entry.update # NULL /\ d.entry.update.type = "DATA_UPDATE"
                                /\ ~d.entry.opts.skipAuto /\ Len(d.rest) > 0
                                /\ ~w.obs.auto),
     !.obs.autoOK = @ /\ (w.obs.auto => /\ d.entry.update.type = "DATA_UPDATE"
                                        /\ Len(d.rest) = 0
                                        /\ ~d.entry.opts.skipAuto)]

\* A drain that looks at the skipAuto option of the update only.
RECURSIVE drainLoop_NoBatchSkip(_)
drainLoop_NoBatchSkip(w) ==
  IF Len(w.updateQueue) = 0 THEN w
  ELSE LET d == dequeue(w.updateQueue)
           w1 == observeDequeued([w EXCEPT !.updateQueue = d.rest, !.obs.auto = FALSE],
                                 d.entry)
           skipAuto == d.entry.opts.skipAuto
       IN CHOOSE r \in
            { IF w2.obs.exc # NullStr THEN w2 ELSE drainLoop_NoBatchSkip(w2) :
                w2 \in { observeAuto(
                           observeErrorCleared(
                             observeApplied(applyStateUpdate(w1, d.entry.update, skipAuto),
                                            d.entry),
                             w1.st.error, d.entry),
                           d) } } : TRUE

\* The while loop of processUpdateQueue; it ends when an update throws.
RECURSIVE drainLoop(_)
drainLoop(w) ==
  IF Len(w.updateQueue) = 0 THEN w
  ELSE LET d == dequeue(w.updateQueue)
           w1 == observeDequeued([w EXCEPT !.updateQueue = d.rest, !.obs.auto = FALSE],
                                 d.entry)
           skipAuto == Len(w1.updateQueue) > 0 \/ d.entry.opts.skipAuto
       IN CHOOSE r \in
            { IF w2.obs.exc # NullStr THEN w2 ELSE drainLoop(w2) :
                w2 \in { observeAuto(
                           observeErrorCleared(
                             observeApplied(applyStateUpdate(w1, d.entry.update, skipAuto),
                                            d.entry),
                             w1.st.error, d.entry),
                           d) } } : TRUE

\* StateManager.processUpdateQueue
processUpdateQueue(w) ==
  IF w.isProcessingQueue \/ Len(w.updateQueue) = 0 THEN w
  ELSE [drainLoop([w EXCEPT !.isProcessingQueue = TRUE]) EXCEPT !.isProcessingQueue = FALSE]

(***************************************************************************)
(* StateManager: the debounced sync cycle                                  *)
(***************************************************************************)
\* setTimeout hands out the first timer id that is not in use.
FreshTimer(pending) ==
  CHOOSE id \in 1..(Cardinality(pending) + 1) :
    id \notin pending /\ \A q \in 1..(id - 1) : q \in pending

\* A debounce that forgets clearTimeout.
syncAfterDataChange_NoClear(w) ==
  IF w.isSyncInProgress
  THEN updateState(w, LoadingUpdate(FALSE), FALSE, NoTag)
  ELSE LET id == FreshTimer(w.syncTimers)
       IN [w EXCEPT !.syncTimers = @ \cup {id},
                    !.syncTimeoutId = id,
                    !.obs.burst = @ + 1]

\* StateManager.syncAfterDataChange: the re-entrancy guard and the debounce.
syncAfterDataChange(w) ==
  IF w.isSyncInProgress
  THEN updateState(w, LoadingUpdate(FALSE), FALSE, NoTag)
  ELSE LET cleared == w.syncTimers \ {w.syncTimeoutId}
           id == FreshTimer(cleared)
       IN [w EXCEPT !.syncTimers = cleared \cup {id},
                    !.syncDue = @ \ {w.syncTimeoutId},
                    !.syncTimeoutId = id,
                    !.obs.burst = @ + 1]

NoSync ==
  [ran |-> FALSE, burst |-> 0, fast |-> FALSE, readLatest |-> TRUE, saveFailed |-> FALSE,
   computeFailed |-> FALSE, computeRan |-> FALSE, published |-> FALSE,
   validateRan |-> FALSE, cleared |-> FALSE, dataKept |-> TRUE,
   report |-> NULL, prev |-> NULL]

\* "Read authoritative data from engine"
syncReadData(w) == w.eng.data

\* "Persist current engine data"
syncPersistStep(w, dataString) ==
  LET w1 == engineSave(w)
  IN [w1 EXCEPT !.lastSavedDataString = dataString,
                !.obs.persistWrites = @ + 1,
                !.obs.recordedOk = w1.obs.lastSaveOk,
                !.obs.sync.saveFailed = ~w1.obs.lastSaveOk]

\* "Compute derived results": the result is held in obs.result until the
\* cycle ends.
syncComputeStep(w) ==
  LET computationResult == compute(EngineData(w), w.now)
  IN [w EXCEPT !.obs.result = computationResult,
               !.obs.sync.computeRan = TRUE,
               !.obs.sync.computeFailed = (computationResult.error # NullStr)]

\* "Publish authoritative data" and "Publish computation result if
\* available and changed"
syncPublishStep(w, data) ==
  LET w1 == updateState(w, DataUpdate(data, w.st.scenarios), TRUE, NoTag)
      computationResult == w1.obs.result
      compHash == JSONstringify(computationResult)
      w2 == [w1 EXCEPT !.obs.sync.report = computationResult,
                       !.obs.sync.prev = w1.obs.lastReport]
  IN IF computationResult # NULL /\ w2.lastComputationHash # compHash
     THEN [updateState([w2 EXCEPT !.lastComputationHash = compHash],
                       Update("COMPUTATION_UPDATE", [result |-> computationResult]),
                       TRUE, NoTag)
             EXCEPT !.obs.sync.published = TRUE,
                    !.obs.lastReport = computationResult]
     ELSE w2

\* "Run validation using current state"
syncValidateStep(w) == [smValidateAllData(w) EXCEPT !.obs.sync.validateRan = TRUE]

\* "Clear loading state - sync completed"
syncClearStep(w) ==
  [updateState(w, LoadingUpdate(FALSE), FALSE, NoTag) EXCEPT !.obs.sync.cleared = TRUE]

\* A cycle whose persist step is not guarded: a failed save ends the cycle.
syncCallback_Unguarded(w) ==
  LET w0 == [w EXCEPT !.isSyncInProgress = TRUE,
                      !.obs.sync = [NoSync EXCEPT !.ran = TRUE, !.burst = w.obs.burst],
                      !.obs.burst = 0,
                      !.obs.persistReqs = IF @ < 2 THEN @ + 1 ELSE @]
      data == syncReadData(w0)
      content == w0.heap[data]
      before == EngineData(w0)
      dataString == JSONstringify(content)
      saved == syncPersistStep(w0, dataString)
      body ==
        IF content = NULL
        THEN syncClearStep(w0)
        ELSE IF w0.lastSavedDataString # NULL /\ w0.lastSavedDataString = dataString
        THEN [syncClearStep(w0) EXCEPT !.obs.sync.fast = TRUE]
        ELSE IF saved.obs.sync.saveFailed
        THEN saved
        ELSE syncClearStep(syncValidateStep(syncPublishStep(syncComputeStep(saved), data)))
  IN [body EXCEPT !.isSyncInProgress = FALSE,
                  !.obs.result = NULL,
                  !.obs.sync.readLatest = (content = before),
                  !.obs.sync.dataKept = (EngineData(body) = before)]

\* A cycle whose unchanged-hash early return leaves the in-progress flag set.
syncCallback_FlagKept(w) ==
  LET w0 == [w EXCEPT !.isSyncInProgress = TRUE,
                      !.obs.sync = [NoSync EXCEPT !.ran = TRUE, !.burst = w.obs.burst],
                      !.obs.burst = 0,
                      !.obs.persistReqs = IF @ < 2 THEN @ + 1 ELSE @]
      data == syncReadData(w0)
      content == w0.heap[data]
      before == EngineData(w0)
      dataString == JSONstringify(content)
      fast == content # NULL /\ w0.lastSavedDataString # NULL
              /\ w0.lastSavedDataString = dataString
      body ==
        IF content = NULL
        THEN syncClearStep(w0)
        ELSE IF fast
        THEN [syncClearStep(w0) EXCEPT !.obs.sync.fast = TRUE]
        ELSE syncClearStep(syncValidateStep(syncPublishStep(
               syncComputeStep(syncPersistStep(w0, dataString)), data)))
  IN [body EXCEPT !.isSyncInProgress = fast,
                  !.obs.result = NULL,
                  !.obs.sync.readLatest = (content = before),
                  !.obs.sync.dataKept = (EngineData(body) = before)]

\* The callback of the debounce timer.
syncCallback(w) ==
  LET w0 == [w EXCEPT !.isSyncInProgress = TRUE,
                      !.obs.sync = [NoSync EXCEPT !.ran = TRUE, !.burst = w.obs.burst],
                      !.obs.burst = 0,
                      !.obs.persistReqs = IF @ < 2 THEN @ + 1 ELSE @]
      data == syncReadData(w0)
      content == w0.heap[data]
      before == EngineData(w0)
      dataString == JSONstringify(content)
      body ==
        IF content = NULL
        THEN syncClearStep(w0)
        ELSE IF w0.lastSavedDataString # NULL /\ w0.lastSavedDataString = dataString
        THEN [syncClearStep(w0) EXCEPT !.obs.sync.fast = TRUE]
        ELSE syncClearStep(syncValidateStep(syncPublishStep(
               syncComputeStep(syncPersistStep(w0, dataString)), data)))
  IN [body EXCEPT !.isSyncInProgress = FALSE,
                  !.obs.result = NULL,
                  !.obs.sync.readLatest = (content = before),
                  !.obs.sync.dataKept = (EngineData(body) = before)]

(***************************************************************************)
(* StateManager: operations                                                *)
(***************************************************************************)
Began(w, kind) ==
  updateState([w EXCEPT !.obs.lastOp = kind, !.obs.loaded = FALSE],
              LoadingUpdate(TRUE), FALSE, NoTag)

\* A payload with a hard validation error: ERROR_UPDATE, return, finally.
Rejected(w, message) ==
  LET w1 == updateState([w EXCEPT !.obs.lastOp = "rejected"],
                        ErrorUpdate(message), FALSE, NoTag)
  IN updateState(w1, LoadingUpdate(FALSE), FALSE, RejTag(message))

\* An exception inside the try block: the catch's ERROR_UPDATE, finally.
Threw(w, message) ==
  LET w1 == updateState([w EXCEPT !.obs.lastOp = "threw"],
                        ErrorUpdate(message), FALSE, NoTag)
  IN updateState(w1, LoadingUpdate(FALSE), FALSE, FinTag)

\* An accepted mutation without the finally block.
Accepted_NoFinally(w) ==
  syncAfterDataChange(updateState(w, DataUpdate(w.eng.data, w.st.scenarios), TRUE, FinTag))

\* The common tail of an accepted mutation: publish the data without
\* auto-save, schedule the sync, and clear loading in the finally block.
Accepted(w) ==
  LET w1 == updateState(w, DataUpdate(w.eng.data, w.st.scenarios), TRUE, NoTag)
      w2 == syncAfterDataChange(w1)
  IN updateState(w2, LoadingUpdate(FALSE), FALSE, FinTag)

\* StateManager.updateMenu
updateMenu(w, menuId, updates) ==
  LET w0 == Began(w, "accepted")
  IN IF updates = NULL
     THEN Threw(w0, "Failed to update menu: TypeError")
     ELSE LET validationResult == validateMenuItem(updates)
          IN IF ~validationResult.isValid
             THEN Rejected(w0, "Menu validation failed: " \o Join(validationResult.errors))
             ELSE LET w1 == engineSave(engineUpdateMenu(w0, menuId, updates))
                      existing == MenuIndex(EngineData(w1).menus, menuId) > 0
                      menuToAdd == [id |-> menuId, name |-> updates.name,
                                    price |-> updates.price,
                                    channelMix |-> updates.channelMix, bom |-> updates.bom]
                      w2 == IF existing THEN w1 ELSE engineAddMenu(w1, menuToAdd)
                  IN Accepted(w2)

\* StateManager.addMenu
addMenu(w, menu) ==
  LET w0 == Began(w, "accepted")
  IN IF menu = NULL
     THEN Threw(w0, "Failed to add menu: TypeError")
     ELSE LET validationResult == validateMenuItem(menu)
          IN IF ~validationResult.isValid
             THEN Rejected(w0, "Menu validation failed: " \o Join(validationResult.errors))
             ELSE Accepted(engineAddMenu(w0, menu))

\* StateManager.deleteMenu
deleteMenu(w, menuId) == Accepted(engineDeleteMenu(Began(w, "accepted"), menuId))

\* A mutation that applies the payload before it looks at the validation.
updateSalesModel_NoAbort(w, updates) ==
  LET w0 == Began(w, "accepted")
  IN IF updates = NULL
     THEN Threw(w0, "Failed to update sales model: TypeError")
     ELSE LET validationResult == validateSalesModel(updates)
              w1 == engineUpdateSalesModel(w0, updates)
          IN IF ~validationResult.isValid
             THEN Rejected(w1, "Sales model validation failed: "
                                 \o Join(validationResult.errors))
             ELSE Accepted(w1)

\* StateManager.updateSalesModel
updateSalesModel(w, updates) ==
  LET w0 == Began(w, "accepted")
  IN IF updates = NULL
     THEN Threw(w0, "Failed to update sales model: TypeError")
     ELSE LET validationResult == validateSalesModel(updates)
          IN IF ~validationResult.isValid
             THEN Rejected(w0, "Sales model validation failed: "
                                 \o Join(validationResult.errors))
             ELSE Accepted(engineUpdateSalesModel(w0, updates))

\* The errors of the invalid items of a list payload (filter, flatMap).
ListErrors(items, validate(_)) ==
  Flatten([i \in 1..Len(items) |->
             IF validate(items[i]).isValid THEN <<>> ELSE validate(items[i]).errors])
ListHasErrors(items, validate(_)) ==
  \E i \in 1..Len(items) : ~validate(items[i]).isValid

\* A list argument is [isNull, items]: calling map on a null argument throws.
\* StateManager.updateUtilities
updateUtilities(w, arg) ==
  LET w0 == Began(w, "accepted")
  IN IF arg.isNull
     THEN Threw(w0, "Failed to update utilities: TypeError")
     ELSE LET errors == ListErrors(arg.items, validateUtilityItem)
          IN IF ListHasErrors(arg.items, validateUtilityItem)
             THEN Rejected(w0, "Utility validation failed: " \o Join(errors))
             ELSE Accepted(engineUpdateUtilities(w0, arg.items))

\* StateManager.updateLabor
updateLabor(w, arg) ==
  LET w0 == Began(w, "accepted")
  IN IF arg.isNull
     THEN Threw(w0, "Failed to update labor: TypeError")
     ELSE LET errors == ListErrors(arg.items, validateLaborItem)
          IN IF ListHasErrors(arg.items, validateLaborItem)
             THEN Rejected(w0, "Labor validation failed: " \o Join(errors))
             ELSE Accepted(engineUpdateLabor(w0, arg.items))

\* StateManager.updateFixedCosts
updateFixedCosts(w, arg) ==
  LET w0 == Began(w, "accepted")
  IN IF arg.isNull
     THEN Threw(w0, "Failed to update fixed costs: TypeError")
     ELSE LET errors == ListErrors(arg.items, validateFixedCost)
          IN IF ListHasErrors(arg.items, validateFixedCost)
             THEN Rejected(w0, "Fixed cost validation failed: " \o Join(errors))
             ELSE Accepted(engineUpdateFixedCosts(w0, arg.items))

\* StateManager.importData
importData(w, doc) ==
  LET w0 == Began(w, "import")
      w1 == engineImportJSON(w0, doc)
  IN IF w1.obs.importResult.success
     THEN LET w2 == updateState(w1, DataUpdate(w1.eng.data, w1.eng.scenarios), FALSE, NoTag)
              w3 == computeAndValidate(w2, FinTag)
          IN [w3 EXCEPT !.validationCache = {}, !.obs.ran = {}, !.obs.loaded = TRUE]
     ELSE updateState(w1, ErrorUpdate(w1.obs.importResult.error), FALSE, FinTag)

\* StateManager.reset
reset(w) ==
  LET w0 == Began(w, "reset")
      w1 == engineNew([w0 EXCEPT !.storage = [data |-> NULL, scenarios |-> NULL]])
      w2 == updateState(w1, DataUpdate(w1.eng.data, w1.eng.scenarios), FALSE, NoTag)
      w3 == computeAndValidate(w2, FinTag)
  IN [w3 EXCEPT !.validationCache = {}, !.obs.ran = {}, !.obs.loaded = TRUE]

\* StateManager.setCurrentScenario
setCurrentScenario(w, scenarioId) ==
  LET w0 == [w EXCEPT !.obs.lastOp = "scenario"]
  IN IF scenarioId \in DOMAIN w0.st.scenarios
     THEN updateState(w0, Update("SCENARIO_UPDATE", [scenarioId |-> scenarioId]), FALSE, NoTag)
     ELSE updateState(w0, ErrorUpdate("Scenario " \o scenarioId \o " not found"), FALSE, NoTag)

\* StateManager.clearError
clearError(w) ==
  updateState([w EXCEPT !.obs.lastOp = "clearError"], ErrorUpdate(NullStr), FALSE, NoTag)

(***************************************************************************)
(* Inputs                                                                  *)
(***************************************************************************)
MenuB ==
  [id |-> "m1", name |-> "khao_man_gai", price |-> 60,
   channelMix |-> [dineIn |-> 7, takeaway |-> 2, delivery |-> 1], bom |-> <<>>]
MenuC ==
  [id |-> "m2", name |-> "tea", price |-> 20,
   channelMix |-> [dineIn |-> 10, takeaway |-> 0, delivery |-> 0],
   bom |-> << [item |-> "cup", qtyG |-> 0, unitCostPerKg |-> 0, yieldPercent |-> 100,
               wastePercent |-> 0, packaging |-> [qtyUnit |-> 1, unitCost |-> 2]] >>]
MenuBad ==
  [id |-> "m1", name |-> "", price |-> 0,
   channelMix |-> [dineIn |-> 7, takeaway |-> 2, delivery |-> 1], bom |-> <<>>]

UpdateMenuInputs == { <<"m1", MenuB>>, <<"m1", MenuBad>>, <<"m1", NULL>> }
AddMenuInputs == { MenuC, MenuBad }
MenuIds == { "m1" }

SalesInputs ==
  { [forecastDailyUnits |-> 150, paymentFeePercent |-> 2, deliveryCommissionPercent |-> 25],
    [forecastDailyUnits |-> 0, paymentFeePercent |-> 2, deliveryCommissionPercent |-> 25] }

List(items) == [isNull |-> FALSE, items |-> items]
NullList == [isNull |-> TRUE, items |-> <<>>]

UtilityInputs ==
  { List(<<>>),
    List(<< [id |-> "ac_main", type |-> "electric", device |-> "ac", kw |-> 0,
             hoursPerDay |-> 6, ratePerKwh |-> 5] >>) }

LaborInputs ==
  { List(<< [id |-> "kitchen_chef", role |-> "chef", type |-> "direct",
             wagePerHour |-> 50, hoursPerDay |-> 8, daysPerWeek |-> 6] >>),
    List(<< [id |-> "kitchen_chef", role |-> "chef", type |-> "direct",
             wagePerHour |-> 50, hoursPerDay |-> 25, daysPerWeek |-> 8] >>) }

FixedCostInputs ==
  { List(<< [id |-> "rent", name |-> "rent", amountPerMonth |-> 1000] >>),
    List(<< [id |-> "rent", name |-> "rent", amountPerMonth |-> -1] >>) }

ImportedData == [DefaultData EXCEPT !.salesModel.forecastDailyUnits = 80]
ImportedScenarios == [base |-> [id |-> "base", name |-> "Base"]]

ImportDocs ==
  { [parsable |-> TRUE, data |-> ImportedData, scenarios |-> ImportedScenarios],
    [parsable |-> TRUE, data |-> [ImportedData EXCEPT !.labor = <<NULL>>],
     scenarios |-> ImportedScenarios],
    [parsable |-> TRUE, data |-> [ImportedData EXCEPT !.salesModel = NULL],
     scenarios |-> ImportedScenarios],
    [parsable |-> FALSE, data |-> NULL, scenarios |-> NULL] }

ScenarioIds == { "S1", "unknown" }

\* Updates handed to the public method updateState that fail when applied.
BadUpdates ==
  { NULL,
    Update("ERROR_UPDATE", NULL),
    Update("DATA_UPDATE", [bad |-> TRUE]),
    Update("FOO_UPDATE", [bad |-> TRUE]) }

(***************************************************************************)
(* Initial state: new StateManager() on an empty localStorage              *)
(***************************************************************************)
NoFail ==
  [seen |-> FALSE, restored |-> TRUE, wasError |-> FALSE, enqueued |-> FALSE,
   rethrown |-> FALSE]

NoObs ==
  [lastSaveOk |-> TRUE, importResult |-> [success |-> TRUE, error |-> NullStr],
   fifo |-> <<>>, orderOK |-> TRUE, applied |-> FALSE,
   persistReqs |-> 0, persistWrites |-> 0, recordedOk |-> TRUE,
   saves |-> 0, lateApplied |-> FALSE, burst |-> 0,
   exc |-> NullStr, threw |-> FALSE,
   fail |-> NoFail,
   finLoading |-> FALSE, finSeen |-> FALSE, rejSeen |-> FALSE, rejLost |-> FALSE,
   sync |-> NoSync, result |-> NULL, lastOp |-> "none", syncFailed |-> FALSE,
   errCleared |-> FALSE, errKept |-> FALSE,
   delivered |-> <<>>, missed |-> FALSE,
   arg |-> NULL, computed |-> <<>>, calc |-> NULL,
   cacheHit |-> FALSE, ran |-> {}, reran |-> FALSE, lastReport |-> NULL,
   auto |-> FALSE, autoSeen |-> FALSE, batchSkipped |-> FALSE, autoOK |-> TRUE,
   loaded |-> FALSE]

\* StateManager.getInitialState
getInitialState ==
  [data |-> 0, scenarios |-> <<>>, currentScenario |-> "base",
   computationResult |-> NULL, validationResults |-> <<>>,
   isLoading |-> FALSE, error |-> NullStr, lastUpdated |-> 0]

Unconstructed ==
  [heap |-> [r \in Refs |-> NULL], eng |-> [data |-> 0, scenarios |-> NULL],
   storage |-> [data |-> NULL, scenarios |-> NULL], storageFails |-> FALSE,
   st |-> getInitialState, subscribers |-> <<>>, validationCache |-> {},
   updateQueue |-> <<>>,
   isProcessingQueue |-> FALSE, queueTimer |-> FALSE,
   lastSavedDataString |-> NULL, lastComputationHash |-> NULL,
   syncTimers |-> {}, syncDue |-> {}, syncTimeoutId |-> 0,
   isSyncInProgress |-> FALSE, now |-> 0, ops |-> 0, obs |-> NoObs]

\* StateManager.initializeState
initializeState(w) ==
  LET w1 == engineNew(w)
      w2 == [w1 EXCEPT !.st.data = w1.eng.data, !.st.scenarios = w1.eng.scenarios]
      w3 == updateState(w2, DataUpdate(w2.eng.data, w2.eng.scenarios), FALSE, NoTag)
  IN computeAndValidate(w3, FinTag)

Constructed == Collected(initializeState(Unconstructed))

Init ==
  \E w \in {[Constructed EXCEPT !.storageFails = fails] : fails \in BOOLEAN} :
    /\ heap = w.heap
    /\ eng = w.eng
    /\ storage = w.storage
    /\ storageFails = w.storageFails
    /\ st = w.st
    /\ subscribers = w.subscribers
    /\ validationCache = w.validationCache
    /\ updateQueue = w.updateQueue
    /\ isProcessingQueue = w.isProcessingQueue
    /\ queueTimer = w.queueTimer
    /\ lastSavedDataString = w.lastSavedDataString
    /\ lastComputationHash = w.lastComputationHash
    /\ syncTimers = w.syncTimers
    /\ syncDue = w.syncDue
    /\ syncTimeoutId = w.syncTimeoutId
    /\ isSyncInProgress = w.isSyncInProgress
    /\ now = w.now
    /\ ops = w.ops
    /\ obs = w.obs

(***************************************************************************)
(* Actions                                                                 *)
(***************************************************************************)
\* The state as one record, threaded through the operators below.  The
\* observations of a step start blank.
World ==
  [heap |-> heap, eng |-> eng, storage |-> storage, storageFails |-> storageFails,
   st |-> st, subscribers |-> subscribers, validationCache |-> validationCache,
   updateQueue |-> updateQueue,
   isProcessingQueue |-> isProcessingQueue, queueTimer |-> queueTimer,
   lastSavedDataString |-> lastSavedDataString,
   lastComputationHash |-> lastComputationHash,
   syncTimers |-> syncTimers, syncDue |-> syncDue, syncTimeoutId |-> syncTimeoutId,
   isSyncInProgress |-> isSyncInProgress, now |-> now, ops |-> ops,
   obs |-> [obs EXCEPT !.lastOp = "none", !.sync = NoSync, !.fail = NoFail,
                       !.applied = FALSE, !.finSeen = FALSE, !.rejSeen = FALSE,
                       !.importResult = [success |-> TRUE, error |-> NullStr],
                       !.lastSaveOk = TRUE, !.result = NULL, !.exc = NullStr,
                       !.threw = FALSE, !.saves = 0, !.lateApplied = FALSE, !.errCleared = FALSE,
                       !.arg = NULL, !.calc = NULL, !.cacheHit = FALSE,
                       !.auto = FALSE, !.autoSeen = FALSE, !.batchSkipped = FALSE]]

\* The state an event handler leaves behind.  An exception that escapes a
\* timer callback is reported and dropped.
Commit(w, isOp) ==
  LET w1 == [w EXCEPT !.ops = IF isOp THEN @ + 1 ELSE @,
                      !.obs.threw = (w.obs.exc # NullStr),
                      !.obs.exc = NullStr,
                      !.obs.syncFailed =
                        IF isOp THEN FALSE
                        ELSE IF w.obs.sync.ran
                        THEN w.obs.sync.saveFailed \/ w.obs.sync.computeFailed
                        ELSE @]
  IN \E w2 \in {Collected(w1)} :
       /\ heap' = w2.heap
       /\ eng' = w2.eng
       /\ storage' = w2.storage
       /\ storageFails' = w2.storageFails
       /\ st' = w2.st
       /\ subscribers' = w2.subscribers
       /\ validationCache' = w2.validationCache
       /\ updateQueue' = w2.updateQueue
       /\ isProcessingQueue' = w2.isProcessingQueue
       /\ queueTimer' = w2.queueTimer
       /\ lastSavedDataString' = w2.lastSavedDataString
       /\ lastComputationHash' = w2.lastComputationHash
       /\ syncTimers' = w2.syncTimers
       /\ syncDue' = w2.syncDue
       /\ syncTimeoutId' = w2.syncTimeoutId
       /\ isSyncInProgress' = w2.isSyncInProgress
       /\ now' = w2.now
       /\ ops' = w2.ops
       /\ obs' = w2.obs

CanIssue == ops < MaxOps

UpdateMenu ==
  \E in \in UpdateMenuInputs : CanIssue /\ Commit(updateMenu(World, in[1], in[2]), TRUE)
AddMenu == \E menu \in AddMenuInputs : CanIssue /\ Commit(addMenu(World, menu), TRUE)
DeleteMenu == \E menuId \in MenuIds : CanIssue /\ Commit(deleteMenu(World, menuId), TRUE)
UpdateSalesModel ==
  \E updates \in SalesInputs : CanIssue /\ Commit(updateSalesModel(World, updates), TRUE)
UpdateUtilities ==
  \E arg \in UtilityInputs : CanIssue /\ Commit(updateUtilities(World, arg), TRUE)
UpdateLabor == \E arg \in LaborInputs : CanIssue /\ Commit(updateLabor(World, arg), TRUE)
UpdateFixedCosts ==
  \E arg \in FixedCostInputs : CanIssue /\ Commit(updateFixedCosts(World, arg), TRUE)
ImportData ==
  \E doc \in ImportDocs :
    CanIssue /\ HasFreeRef(World) /\ Commit(importData(World, doc), TRUE)
Reset == CanIssue /\ HasFreeRef(World) /\ Commit(reset(World), TRUE)
SetCurrentScenario ==
  \E scenarioId \in ScenarioIds : CanIssue /\ Commit(setCurrentScenario(World, scenarioId), TRUE)
ClearError == CanIssue /\ Commit(clearError(World), TRUE)

\* useRealTimeUpdates: the periodic, visibility-change and before-unload saves.
ForceSave ==
  CanIssue /\ Commit(forceSave([World EXCEPT !.obs.lastOp = "forceSave"]), TRUE)

\* A direct call of the public method updateState.
UpdateStateCall ==
  \/ \E update \in BadUpdates :
       CanIssue /\ Commit(updateState([World EXCEPT !.obs.lastOp = "updateState"],
                                      update, FALSE, NoTag), TRUE)
  \/ CanIssue /\ Commit(updateState([World EXCEPT !.obs.lastOp = "updateState"],
                                    DataUpdate(eng.data, eng.scenarios), FALSE, NoTag), TRUE)

\* A component subscribes a callback; the callback is named after the
\* operation count.
Subscribe ==
  \E kind \in SubscriberKinds :
    CanIssue /\ Commit(subscribe([World EXCEPT !.obs.lastOp = "subscribe"],
                                 [id |-> ops + 1, kind |-> kind]), TRUE)

\* A component calls the unsubscribe function it was given.
Unsubscribe ==
  \E i \in 1..Len(subscribers) :
    CanIssue /\ Commit(unsubscribe([World EXCEPT !.obs.lastOp = "unsubscribe"],
                                   subscribers[i].id), TRUE)

\* The zero-delay timer of updateState fires.
Drain ==
  /\ queueTimer
  /\ Commit(processUpdateQueue([World EXCEPT !.queueTimer = FALSE]), FALSE)

\* The debounce delay of the pending sync timer elapses.  A zero-delay timer
\* that is pending is due earlier and fires first.
SyncElapse ==
  /\ ~queueTimer
  /\ \E id \in syncTimers \ syncDue :
       Commit([World EXCEPT !.syncDue = @ \cup {id}, !.now = @ + 1], FALSE)

\* The debounce timer fires.
SyncFire ==
  \E id \in syncDue :
    Commit(syncCallback([World EXCEPT !.syncTimers = @ \ {id}, !.syncDue = @ \ {id}]), FALSE)

Next ==
  \/ UpdateMenu \/ AddMenu \/ DeleteMenu \/ UpdateSalesModel \/ UpdateUtilities
  \/ UpdateLabor \/ UpdateFixedCosts \/ ImportData \/ Reset
  \/ SetCurrentScenario \/ ClearError \/ ForceSave \/ UpdateStateCall
  \/ Drain \/ SyncElapse \/ SyncFire

Spec == Init /\ [][Next]_vars

\* The same program with components that subscribe and unsubscribe.
NextSubscribers == Next \/ Subscribe \/ Unsubscribe
SpecSubscribers == Init /\ [][NextSubscribers]_vars

\* The same program with payloads that raise warnings and no error.
MenuHighPrice == [MenuB EXCEPT !.price = MAX_PRICE + 1]
MenuHighMix == [MenuC EXCEPT !.channelMix = [dineIn |-> 10, takeaway |-> 5, delivery |-> 5]]
MenuWasteful ==
  [MenuB EXCEPT !.bom = << [item |-> "herbs", qtyG |-> 20, unitCostPerKg |-> 90,
                            yieldPercent |-> 60, wastePercent |-> 55,
                            packaging |-> NULL] >>]
SalesHighUnits ==
  [forecastDailyUnits |-> 1500, paymentFeePercent |-> 2, deliveryCommissionPercent |-> 25]
LaborHighWage ==
  [id |-> "kitchen_chef", role |-> "chef", type |-> "direct",
   wagePerHour |-> 1500, hoursPerDay |-> 8, daysPerWeek |-> 6]
FixedCostHigh == [id |-> "rent", name |-> "rent", amountPerMonth |-> 200000]

WarningPayloads ==
  { [op |-> "updateMenu", payload |-> MenuWasteful],
    [op |-> "addMenu", payload |-> MenuHighMix],
    [op |-> "updateSalesModel", payload |-> SalesHighUnits],
    [op |-> "updateLabor", payload |-> List(<<LaborHighWage>>)],
    [op |-> "updateFixedCosts", payload |-> List(<<FixedCostHigh>>)] }

mutate(w, call) ==
  IF call.op = "updateMenu" THEN updateMenu(w, call.payload.id, call.payload)
  ELSE IF call.op = "addMenu" THEN addMenu(w, call.payload)
  ELSE IF call.op = "updateSalesModel" THEN updateSalesModel(w, call.payload)
  ELSE IF call.op = "updateLabor" THEN updateLabor(w, call.payload)
  ELSE updateFixedCosts(w, call.payload)

MutateWithWarnings ==
  \E call \in WarningPayloads :
    CanIssue /\ Commit(mutate([World EXCEPT !.obs.arg = call], call), TRUE)

NextWarnings == Next \/ MutateWithWarnings
SpecWarnings == Init /\ [][NextWarnings]_vars

\* The menu editor alone: its three operations with the timers, and an edit
\* form whose id field differs from the id of the menu being edited.
MenuEdits == { <<"m1", MenuC>>, <<"m2", MenuB>> }

EditMenu ==
  \E in \in MenuEdits :
    CanIssue /\ Commit(updateMenu([World EXCEPT !.obs.arg = [menuId |-> in[1], updates |-> in[2]]],
                                  in[1], in[2]), TRUE)

NextMenus ==
  \/ UpdateMenu \/ AddMenu \/ DeleteMenu \/ EditMenu
  \/ Drain \/ SyncElapse \/ SyncFire
SpecMenus == Init /\ [][NextMenus]_vars

\* The update queue with its timers: a timer that is pending fires (the
\* event loop runs every callback whose delay has elapsed).
NextQueue ==
  \/ UpdateStateCall \/ SetCurrentScenario \/ ClearError \/ UpdateSalesModel
  \/ Drain \/ SyncElapse \/ SyncFire
SpecQueue ==
  /\ Init /\ [][NextQueue]_vars
  /\ WF_vars(Drain) /\ WF_vars(SyncElapse) /\ WF_vars(SyncFire)

\* The mutation operations with a backup that is exported and imported back:
\* importData(exportData()).
RoundTrip ==
  /\ CanIssue /\ HasFreeRef(World)
  /\ Commit(importData([World EXCEPT !.obs.arg = [exported |-> exportJSON(World),
                                                  data |-> EngineData(World),
                                                  scenarios |-> eng.scenarios]],
                        ExportedDoc(exportJSON(World))), TRUE)

NextRoundTrip ==
  \/ UpdateMenu \/ AddMenu \/ DeleteMenu \/ UpdateSalesModel \/ UpdateUtilities
  \/ UpdateLabor \/ UpdateFixedCosts \/ RoundTrip
  \/ Drain \/ SyncElapse \/ SyncFire
SpecRoundTrip == Init /\ [][NextRoundTrip]_vars

(***************************************************************************)
(* The engine on its own: new FinanceEngine() followed by load(data), then *)
(* calls of its methods as the engine's unit tests make them.              *)
(***************************************************************************)
DefaultMenu == DefaultData.menus[1]

\* Datasets handed to FinanceEngine.load.
EngineDatasets ==
  { DefaultData,
    NULL,
    [DefaultData EXCEPT !.menus = <<>>],
    [DefaultData EXCEPT !.menus = NotAList],
    [DefaultData EXCEPT !.menus = <<NULL>>],
    [DefaultData EXCEPT !.salesModel = NULL],
    [DefaultData EXCEPT !.salesModel.forecastDailyUnits = NaV],
    [DefaultData EXCEPT !.salesModel.forecastDailyUnits = NaN],
    [DefaultData EXCEPT !.salesModel.forecastDailyUnits = -5],
    [DefaultData EXCEPT !.salesModel.forecastDailyUnits = 0],
    [DefaultData EXCEPT !.utilities = NotAList],
    [DefaultData EXCEPT !.labor = NotAList],
    [DefaultData EXCEPT !.fixedCosts = NotAList],
    [DefaultData EXCEPT !.labor = <<NULL>>],
    [DefaultData EXCEPT !.utilities = <<NULL>>],
    [DefaultData EXCEPT !.fixedCosts = <<NULL>>],
    [DefaultData EXCEPT !.menus[1].channelMix.takeaway = NaN],
    [DefaultData EXCEPT !.menus[1].channelMix.delivery = -3],
    [DefaultData EXCEPT !.menus[1].channelMix.dineIn = NaV],
    [DefaultData EXCEPT !.menus[1].price = NaV],
    [DefaultData EXCEPT !.menus[1].price = 0],
    [DefaultData EXCEPT !.menus = <<DefaultMenu, [DefaultMenu EXCEPT !.id = "m2", !.price = 40]>>] }

\* Documents handed to FinanceEngine.importJSON.
EngineDocs ==
  ImportDocs \cup
  { [parsable |-> TRUE, data |-> ImportedData, scenarios |-> NULL],
    [parsable |-> TRUE, data |-> NULL, scenarios |-> ImportedScenarios],
    [parsable |-> TRUE, data |-> [ImportedData EXCEPT !.utilities = NotAList],
     scenarios |-> ImportedScenarios],
    [parsable |-> TRUE, data |-> [ImportedData EXCEPT !.menus = NotAList],
     scenarios |-> ImportedScenarios],
    [parsable |-> TRUE, data |-> [ImportedData EXCEPT !.menus = <<>>],
     scenarios |-> ImportedScenarios] }

engineLoad(w, data) ==
  [w EXCEPT !.heap[1] = data, !.eng = [data |-> 1, scenarios |-> DefaultScenarios]]

InitEngine ==
  \E w \in {engineLoad(Unconstructed, data) : data \in EngineDatasets} :
    /\ heap = w.heap
    /\ eng = w.eng
    /\ storage = w.storage
    /\ storageFails = w.storageFails
    /\ st = w.st
    /\ subscribers = w.subscribers
    /\ validationCache = w.validationCache
    /\ updateQueue = w.updateQueue
    /\ isProcessingQueue = w.isProcessingQueue
    /\ queueTimer = w.queueTimer
    /\ lastSavedDataString = w.lastSavedDataString
    /\ lastComputationHash = w.lastComputationHash
    /\ syncTimers = w.syncTimers
    /\ syncDue = w.syncDue
    /\ syncTimeoutId = w.syncTimeoutId
    /\ isSyncInProgress = w.isSyncInProgress
    /\ now = w.now
    /\ ops = w.ops
    /\ obs = w.obs

EngineImport ==
  \E doc \in EngineDocs :
    /\ CanIssue
    /\ HasFreeRef(World)
    /\ Commit(engineImportJSON([World EXCEPT !.obs.lastOp = "importJSON",
                                             !.obs.arg = doc], doc), TRUE)

engineCompute_Clock(w) ==
  LET result == [compute(EngineData(w), w.now) EXCEPT !.pnl.daily.revenue = w.now]
  IN [w EXCEPT !.obs.result = result,
               !.obs.computed = Append(@, [data |-> EngineData(w), result |-> result,
                                           stored |-> w.storage.data # NULL]),
               !.now = @ + 1]

\* A call of compute at the current time; calls are made at distinct times.
\* History: the Dataset read, the report returned and whether the Dataset
\* had been saved by then.
engineCompute(w) ==
  LET result == compute(EngineData(w), w.now)
  IN [w EXCEPT !.obs.result = result,
               !.obs.computed = Append(@, [data |-> EngineData(w), result |-> result,
                                           stored |-> w.storage.data # NULL]),
               !.now = @ + 1]

EngineCompute ==
  CanIssue /\ Commit(engineCompute([World EXCEPT !.obs.lastOp = "compute"]), TRUE)

\* A call of the private method calculateDailyRevenue, as the unit tests
\* make it.  Without a Dataset the method reads a property of null.
engineDailyRevenue(w) ==
  [w EXCEPT !.obs.calc = IF EngineData(w) = NULL THEN [thrown |-> "TypeError"]
                         ELSE [revenue |-> calculateDailyRevenue(EngineData(w))]]

EngineDailyRevenue ==
  CanIssue /\ Commit(engineDailyRevenue([World EXCEPT !.obs.lastOp = "calculateDailyRevenue"]),
                     TRUE)

\* Menus handed to the private method calculateVariableCostPerUnit.
DefaultLine == DefaultMenu.bom[1]
PackagingLine ==
  [item |-> "box", qtyG |-> NaV, unitCostPerKg |-> NaV, yieldPercent |-> NaV,
   wastePercent |-> NaV, packaging |-> [qtyUnit |-> 2, unitCost |-> 3]]
MenuArgs ==
  { NULL,
    DefaultMenu,
    [id |-> "m1", name |-> "khao_man_gai", price |-> 50,
     channelMix |-> DefaultMenu.channelMix],
    [DefaultMenu EXCEPT !.bom = <<>>],
    [DefaultMenu EXCEPT !.bom = NotAList],
    [DefaultMenu EXCEPT !.bom = <<DefaultLine, PackagingLine>>],
    [DefaultMenu EXCEPT !.bom = <<PackagingLine, NULL, DefaultLine>>],
    [DefaultMenu EXCEPT !.bom = <<[DefaultLine EXCEPT !.yieldPercent = 0], PackagingLine>>],
    [DefaultMenu EXCEPT !.bom = <<[DefaultLine EXCEPT !.yieldPercent = -10]>>],
    [DefaultMenu EXCEPT !.bom = <<[DefaultLine EXCEPT !.wastePercent = -5]>>],
    [DefaultMenu EXCEPT !.bom = <<[DefaultLine EXCEPT !.qtyG = NaV], DefaultLine>>],
    [DefaultMenu EXCEPT !.bom = <<[DefaultLine EXCEPT !.unitCostPerKg = NaN]>>],
    [DefaultMenu EXCEPT !.bom =
       <<[PackagingLine EXCEPT !.packaging.unitCost = NaV], DefaultLine>>] }

engineVariableCost(w, menu) ==
  [w EXCEPT !.obs.arg = menu, !.obs.calc = [vc |-> calculateVariableCostPerUnit(menu)]]

EngineVariableCost ==
  \E menu \in MenuArgs :
    CanIssue /\ Commit(engineVariableCost(
                         [World EXCEPT !.obs.lastOp = "calculateVariableCostPerUnit"], menu),
                       TRUE)

\* The pnl handed to the private method calculateKPIs: what calculatePnL
\* returns for the Dataset, as compute does, or an object of the caller.
MockPnL(revenue, cogs) ==
  [daily |-> [revenue |-> revenue, cogs |-> cogs, grossProfit |-> revenue - cogs,
              operatingProfit |-> revenue - cogs]]
PnLArgs(data) ==
  {NULL, MockPnL(0, 0), MockPnL(1000000, 400000)}
    \cup (IF validateData(data) /\ ~derivationThrows(data) THEN {calculatePnL(data)} ELSE {})

\* calculateKPIs reads a property of null or calls reduce on a value that
\* is not an array.
kpisThrows(data, pnl) ==
  /\ pnl # NULL
  /\ \/ data = NULL
     \/ /\ IsArray(data.menus) /\ data.menus # <<>>
        /\ \/ ~IsArray(data.fixedCosts) \/ ~IsArray(data.labor) \/ ~IsArray(data.utilities)
           \/ \E i \in 1..Len(data.fixedCosts) : data.fixedCosts[i] = NULL
           \/ \E i \in 1..Len(data.labor) : data.labor[i] = NULL
           \/ \E i \in 1..Len(data.utilities) : data.utilities[i] = NULL

engineKPIs(w, pnl) ==
  [w EXCEPT !.obs.arg = pnl,
            !.obs.calc = IF kpisThrows(EngineData(w), pnl) THEN [thrown |-> "TypeError"]
                         ELSE [kpis |-> calculateKPIs(EngineData(w), pnl)]]

EngineKPIs ==
  \E pnl \in PnLArgs(heap[eng.data]) :
    CanIssue /\ Commit(engineKPIs([World EXCEPT !.obs.lastOp = "calculateKPIs"], pnl), TRUE)

\* FinanceEngine.save, which leaves the Dataset as it is.
EngineSave == Commit(engineSave([World EXCEPT !.obs.lastOp = "save"]), FALSE)

NextEngine ==
  \/ EngineImport \/ EngineCompute \/ EngineSave \/ EngineDailyRevenue
  \/ EngineVariableCost \/ EngineKPIs

SpecEngine == InitEngine /\ [][NextEngine]_vars

TypeOK == ops \in 0..MaxOps

(***************************************************************************)
(* Properties                                                              *)
(***************************************************************************)
\* The queue is drained and no timer is pending.
Quiescent ==
  /\ updateQueue = <<>>
  /\ ~queueTimer
  /\ ~isProcessingQueue
  /\ syncTimers = {}

\* A report without the time at which it was computed.
Report(result) == IF result = NULL THEN NULL ELSE [result EXCEPT !.computedAt = 0]

\* C1. Debounce coalescing: at most one sync timer is pending at any time;
\* a timer is pending exactly while accepted mutations wait for their sync
\* cycle, so that a burst of mutations issued before the timer fires is
\* followed by exactly one cycle; and the cycle reads the Dataset as it is
\* when the timer fires.
C1_DebounceCoalescing ==
  /\ Cardinality(syncTimers) <= 1
  /\ (obs.burst > 0) <=> (syncTimers # {})
  /\ syncTimers # {} => syncTimers = {syncTimeoutId}
  /\ obs.sync.ran => obs.sync.readLatest

\* A cycle has run for a burst of two mutations and has left no timer.
C1_Witness == obs.sync.ran /\ obs.sync.burst >= 2 /\ syncTimers = {}

\* C2. A rejected mutation has no effect on data: the step of an operation
\* whose payload has a hard validation error leaves the engine's Dataset and
\* the published Dataset as they were, writes nothing to storage and
\* schedules no sync timer; and once the updates of that operation have been
\* applied, error holds the joined validation message.
C2_RejectedHasNoEffect ==
  /\ [][obs'.lastOp = "rejected" =>
          /\ heap' = heap
          /\ eng' = eng
          /\ st'.data = st.data
          /\ storage' = storage
          /\ obs'.saves = 0
          /\ syncTimers' = syncTimers
          /\ syncTimeoutId' = syncTimeoutId]_vars
  /\ [](~obs.rejLost)

\* The updates of a rejected mutation have been applied and error holds its
\* message.
C2_Witness == obs.rejSeen /\ ~obs.rejLost /\ st.error # NullStr /\ updateQueue = <<>>

\* C3. The report is recomputed whenever the Dataset changes: when the sync
\* cycle has fired and the queue has drained, the published computationResult
\* is the report computed from the current Dataset.
C3_ReportFollowsDataset ==
  Quiescent /\ st.computationResult # NULL =>
    Report(st.computationResult) = Report(compute(heap[eng.data], 0))

\* C4. Queued updates are applied in the order in which they were enqueued,
\* each at most once, updates enqueued during a drain included.
C4_FifoOrder == obs.orderOK

\* A drain has applied an update that was enqueued while it was running.
C4_Witness == obs.applied /\ obs.lateApplied /\ obs.orderOK

\* C5. isLoading is always cleared: when the last update enqueued by an
\* operation has been applied isLoading is false, and it is false whenever
\* the queue is empty.
C5_LoadingCleared ==
  /\ ~obs.finLoading
  /\ (updateQueue = <<>> /\ ~isProcessingQueue) => ~st.isLoading

\* The updates of an operation that threw internally have drained.
C5_Witness ==
  /\ obs.finSeen
  /\ updateQueue = <<>>
  /\ ~st.isLoading
  /\ st.error = "Failed to update menu: TypeError"

\* C6. Rollback on a failed update: when applying an update throws, the
\* state is restored, the exception is re-thrown, and an ERROR_UPDATE is
\* enqueued unless the failing update was itself an ERROR_UPDATE.
C6_RollbackOnFailedUpdate ==
  obs.fail.seen =>
    /\ obs.fail.restored
    /\ obs.fail.rethrown
    /\ obs.fail.enqueued <=> ~obs.fail.wasError

\* C7. Idempotent persistence: between two mutations of the Dataset the sync
\* cycle, forceSave and autoSave together write at most once; a sync cycle
\* that finds the content already persisted writes nothing, computes nothing
\* and still clears isLoading.
C7_IdempotentPersistence ==
  /\ obs.persistWrites <= 1
  /\ obs.sync.fast =>
       /\ obs.saves = 0
       /\ ~obs.sync.computeRan
       /\ obs.sync.cleared

\* A second persistence request for the same content took the fast path of
\* the sync cycle.
C7_Witness == obs.sync.fast /\ obs.persistReqs = 2 /\ obs.persistWrites = 1

\* C8. Sync-cycle steps are isolated: a cycle whose persist step or compute
\* step failed still ran the compute step, the validation and the clearing
\* of isLoading, and left the Dataset of the engine as it was.
C8_SyncStepsIsolated ==
  (obs.sync.ran /\ (obs.sync.saveFailed \/ obs.sync.computeFailed)) =>
    /\ obs.sync.computeRan
    /\ obs.sync.validateRan
    /\ obs.sync.cleared
    /\ obs.sync.dataKept

\* A cycle whose save failed has run to its end.
C8_Witness == obs.sync.ran /\ obs.sync.saveFailed /\ obs.sync.cleared

\* C9. A failure of the persist step or of the compute step of a sync cycle
\* surfaces: once the cycle has run and the queue has drained, error is not
\* null.
C9_SyncFailureSurfaces ==
  (obs.syncFailed /\ updateQueue = <<>> /\ ~queueTimer) => st.error # NullStr

\* C10. A content is recorded as last persisted only when the write
\* succeeded.
C10_RecordedOnlyOnSuccess == lastSavedDataString # NULL => obs.recordedOk

\* The valid payloads among the inputs of updateSalesModel and updateLabor.
ValidSalesInputs == {u \in SalesInputs : validateSalesModel(u).isValid}
ValidLaborInputs ==
  {arg \in LaborInputs : \A i \in 1..Len(arg.items) : validateLaborItem(arg.items[i]).isValid}

\* C11. Errors are not sticky blockers: in a state whose error is not null a
\* valid mutation is accepted, changes the Dataset of the engine as asked
\* and schedules a sync; applying the LOADING_UPDATE that enters loading, or
\* the update of clearError, leaves error null.
C11_ErrorsNotSticky ==
  /\ ~obs.errKept
  /\ st.error # NullStr =>
       /\ \A u \in ValidSalesInputs :
            \E w \in {updateSalesModel(World, u)} :
              /\ w.obs.lastOp = "accepted"
              /\ EngineData(w).salesModel = Merge(EngineData(World).salesModel, u)
              /\ w.syncTimers = {w.syncTimeoutId}
       /\ \A arg \in ValidLaborInputs :
            \E w \in {updateLabor(World, arg)} :
              /\ w.obs.lastOp = "accepted"
              /\ EngineData(w).labor = arg.items
              /\ w.syncTimers = {w.syncTimeoutId}

\* A drain has applied the loading update of an accepted mutation while
\* error was set: error is null and the sync is scheduled.
C11_Witness == obs.errCleared /\ st.error = NullStr /\ syncTimers # {} /\ updateQueue = <<>>

\* C12. Delivery isolation: each notification calls every subscriber that is
\* registered when it starts exactly once, whatever the callbacks of the
\* other subscribers do.
C12_DeliveryIsolation == ~obs.missed

\* The verdict importJSON reaches on a document, by the checks it makes.
ImportRejects(doc) ==
  \/ ~doc.parsable
  \/ doc.data = NULL \/ doc.scenarios = NULL
  \/ ~IsArray(doc.data.menus) \/ ~IsArray(doc.data.utilities)
  \/ ~IsArray(doc.data.labor) \/ ~IsArray(doc.data.fixedCosts)
  \/ ~validateData(doc.data)

\* C13. Import is all-or-nothing: a document that is unparsable, lacks data
\* or scenarios, has a non-list menus, utilities, labor or fixedCosts, or
\* fails the engine's validity check is answered with success = false and an
\* error message, and the Dataset and the scenarios have the same content
\* as before the call; any other document is answered with success and
\* both are exactly the imported values.
C13_ImportAllOrNothing ==
  [][obs'.lastOp = "importJSON" =>
       IF ImportRejects(obs'.arg)
       THEN /\ ~obs'.importResult.success
            /\ obs'.importResult.error # NullStr
            /\ heap'[eng'.data] = heap[eng.data]
            /\ eng'.scenarios = eng.scenarios
       ELSE /\ obs'.importResult.success
            /\ heap'[eng'.data] = obs'.arg.data
            /\ eng'.scenarios = obs'.arg.scenarios]_vars

\* The Dataset the validity precheck is said to refuse.
PrecheckRefuses(data) ==
  \/ data = NULL
  \/ ~IsArray(data.menus) \/ data.menus = <<>>
  \/ data.salesModel = NULL
  \/ ~IsNumber(data.salesModel.forecastDailyUnits)
  \/ (data.salesModel.forecastDailyUnits # NaN /\ data.salesModel.forecastDailyUnits < 0)
  \/ ~IsArray(data.utilities) \/ ~IsArray(data.labor) \/ ~IsArray(data.fixedCosts)

IsDefaultReport(result, data) ==
  Report(result) = Report(getDefaultComputationResult(data, 0))

\* C14. Validity precheck: compute returns the all-zero default report with
\* its error string whenever the Dataset is absent, has an empty or non-list
\* menu list, lacks a sales model, has a forecastDailyUnits that is not a
\* number or is negative, or has non-list utilities, labor or fixedCosts.
C14_ValidityPrecheck ==
  (obs.lastOp = "compute" /\ PrecheckRefuses(heap[eng.data]))
    => IsDefaultReport(obs.result, heap[eng.data])

\* C15. compute never lets an exception reach its caller: when the
\* derivation raises one (a null entry in labor, utilities or fixedCosts of
\* a Dataset that passed the precheck), the call returns the all-zero
\* default report with its error annotation.
C15_ComputeNeverThrows ==
  obs.lastOp = "compute" =>
    /\ "thrown" \notin DOMAIN obs.result
    /\ (validateData(heap[eng.data]) /\ derivationThrows(heap[eng.data]))
         => /\ IsDefaultReport(obs.result, heap[eng.data])
            /\ obs.result.error # NullStr
C15_Witness ==
  /\ obs.lastOp = "compute"
  /\ validateData(heap[eng.data])
  /\ \E i \in 1..Len(heap[eng.data].labor) : heap[eng.data].labor[i] = NULL
  /\ obs.result.error = "Computation failed due to invalid data"

\* The figures of a report: everything but the time stamp and the version tag.
Figures(result) == [pnl |-> result.pnl, kpis |-> result.kpis, menus |-> result.menus]

RECURSIVE Total(_)
Total(s) == IF s = <<>> THEN 0 ELSE Head(s) + Total(Tail(s))

\* A sum of numbers in floating point: NaN as soon as a term is NaN.
FloatTotal(s) == IF \E i \in 1..Len(s) : s[i] = NaN THEN NaN ELSE Total(s)

\* What a menu is said to add to the daily revenue, in hundredths, with the
\* channel mix in tenths.
ExpectedMenuRevenue(menu, units) ==
  IF menu = NULL \/ ~IsNumber(menu.price) \/ menu.channelMix = NULL THEN 0
  ELSE LET mix == menu.channelMix
       IN IF ~IsNumber(mix.dineIn) \/ ~IsNumber(mix.takeaway) \/ ~IsNumber(mix.delivery)
          THEN 0
          ELSE IF NaN \in {menu.price, units, mix.dineIn, mix.takeaway, mix.delivery}
          THEN NaN
          ELSE menu.price * units
                 * (Max(0, mix.dineIn) + Max(0, mix.takeaway) + Max(0, mix.delivery)) * 10

ExpectedDailyRevenue(data) ==
  IF data.salesModel = NULL \/ ~IsArray(data.menus) THEN 0
  ELSE IF ~IsNumber(data.salesModel.forecastDailyUnits) THEN 0
  ELSE FloatTotal([i \in 1..Len(data.menus) |->
                     ExpectedMenuRevenue(data.menus[i], data.salesModel.forecastDailyUnits)])

ExpectedLineCost(line) ==
  IF line = NULL THEN 0
  ELSE IF line.packaging # NULL
  THEN IF ~IsNumber(line.packaging.qtyUnit) \/ ~IsNumber(line.packaging.unitCost) THEN 0
       ELSE IF NaN \in {line.packaging.qtyUnit, line.packaging.unitCost} THEN NaN
       ELSE line.packaging.qtyUnit * line.packaging.unitCost * 100
  ELSE IF \E x \in {line.qtyG, line.unitCostPerKg, line.yieldPercent, line.wastePercent} :
            ~IsNumber(x) THEN 0
  ELSE IF line.yieldPercent # NaN /\ line.yieldPercent <= 0 THEN 0
  ELSE IF NaN \in {line.qtyG, line.unitCostPerKg, line.yieldPercent, line.wastePercent}
  THEN NaN
  ELSE (line.qtyG * (100 + Max(0, line.wastePercent)) * line.unitCostPerKg)
         \div (10 * line.yieldPercent)

ExpectedVariableCost(menu) ==
  IF menu = NULL THEN 0
  ELSE IF "bom" \notin DOMAIN menu THEN 0
  ELSE IF ~IsArray(menu.bom) THEN 0
  ELSE FloatTotal([i \in 1..Len(menu.bom) |-> ExpectedLineCost(menu.bom[i])])

\* C18. The variable cost per unit of a menu is the sum over its BOM lines
\* of qtyUnit x unitCost for a packaging line, zero for an ingredient line
\* with yieldPercent <= 0, and otherwise (qtyG/1000) x (1 + max(0,
\* wastePercent)/100) / (yieldPercent/100) x unitCostPerKg; it is 0 for a
\* null menu and for an empty or missing BOM, and no exception is raised.
C18_VariableCostPerUnit ==
  obs.lastOp = "calculateVariableCostPerUnit"
    => obs.calc = [vc |-> ExpectedVariableCost(obs.arg)]
C18_Witness ==
  /\ obs.lastOp = "calculateVariableCostPerUnit"
  /\ obs.arg = [DefaultMenu EXCEPT !.bom = <<[DefaultLine EXCEPT !.yieldPercent = 0],
                                             PackagingLine>>]
  /\ obs.calc.vc = 2 * 3 * 100

\* The average contribution margin of the menus, in hundredths.
AverageCM(data) ==
  FloatTotal([i \in 1..Len(data.menus) |->
                IF data.menus[i] = NULL \/ ~IsNumber(data.menus[i].price) THEN 0
                ELSE IF NaN \in {data.menus[i].price, ExpectedVariableCost(data.menus[i])}
                THEN NaN
                ELSE data.menus[i].price * 100 - ExpectedVariableCost(data.menus[i])])

\* C19. The KPI computation never divides by zero: primeCostPct,
\* foodCostPct and laborPct are 0 when the revenue is 0, avgTicket and
\* safetyMargin are 0 when forecastDailyUnits is 0, bepUnits and bepPerDay
\* are 0 when the average contribution margin is not positive, and every
\* KPI is 0 when the menu list is empty.
C19_NoDivisionByZero ==
  (obs.lastOp = "calculateKPIs" /\ "kpis" \in DOMAIN obs.calc) =>
    LET kpis == obs.calc.kpis
        data == heap[eng.data]
        pnl == obs.arg
    IN pnl # NULL =>
            /\ data.menus = <<>> => kpis = [f \in DOMAIN kpis |-> 0]
            /\ pnl.daily.revenue = 0 =>
                 kpis.primeCostPct = 0 /\ kpis.foodCostPct = 0 /\ kpis.laborPct = 0
            /\ (data.salesModel # NULL /\ data.salesModel.forecastDailyUnits = 0) =>
                 kpis.avgTicket = 0 /\ kpis.safetyMargin = 0
            /\ (IsArray(data.menus) /\ data.menus # <<>>
                /\ (AverageCM(data) = NaN \/ AverageCM(data) <= 0)) =>
                 kpis.bepUnits = 0 /\ kpis.bepPerDay = 0
C19_Witness ==
  /\ obs.lastOp = "calculateKPIs"
  /\ obs.arg = MockPnL(0, 0)
  /\ heap[eng.data] # NULL
  /\ IsArray(heap[eng.data].menus) /\ heap[eng.data].menus # <<>>
  /\ heap[eng.data].salesModel # NULL
  /\ heap[eng.data].salesModel.forecastDailyUnits = 0
  /\ "kpis" \in DOMAIN obs.calc
  /\ obs.calc.kpis.foodCostPct = 0 /\ obs.calc.kpis.avgTicket = 0
  /\ obs.calc.kpis.bepUnits > 0

\* Payloads of each validator: without message, with errors, with
\* warnings only.
MenuCases == {MenuB, MenuC, MenuBad, MenuHighPrice, MenuHighMix, MenuWasteful}
BOMCases == UNION {{m.bom[i] : i \in 1..Len(m.bom)} : m \in MenuCases}
             \cup {[DefaultLine EXCEPT !.yieldPercent = 0], [DefaultLine EXCEPT !.qtyG = NaN]}
SalesCases == SalesInputs \cup {SalesHighUnits}
LaborCases == UNION {{arg.items[i] : i \in 1..Len(arg.items)} : arg \in LaborInputs}
                \cup {LaborHighWage}
UtilityCases == UNION {{arg.items[i] : i \in 1..Len(arg.items)} : arg \in UtilityInputs}
FixedCostCases == UNION {{arg.items[i] : i \in 1..Len(arg.items)} : arg \in FixedCostInputs}
                    \cup {FixedCostHigh}
DataCases ==
  { NULL, DefaultData, ImportedData,
    [DefaultData EXCEPT !.menus = <<MenuHighPrice, MenuWasteful>>,
                        !.salesModel = SalesHighUnits, !.labor = <<LaborHighWage>>,
                        !.fixedCosts = <<FixedCostHigh>>],
    [DefaultData EXCEPT !.menus = <<MenuBad>>] }

ValidatorResults ==
  {validateMenuItem(x) : x \in MenuCases} \cup {validateBOMItem(x) : x \in BOMCases}
    \cup {validateSalesModel(x) : x \in SalesCases}
    \cup {validateLaborItem(x) : x \in LaborCases}
    \cup {validateUtilityItem(x) : x \in UtilityCases}
    \cup {validateFixedCost(x) : x \in FixedCostCases}
    \cup {validateAllData(x) : x \in DataCases}

\* C20. For every validator isValid is true exactly when the list of errors
\* is empty, warnings never make a result invalid, and a mutation called
\* with a payload that raises warnings and no error is not rejected.
C20_WarningsNeverReject ==
  /\ \A r \in ValidatorResults : r.isValid <=> (r.errors = <<>>)
  /\ \A call \in WarningPayloads \cup {[op |-> "updateMenu", payload |-> MenuHighPrice]} :
       \E w \in {mutate(World, call)} : w.obs.lastOp = "accepted"
  /\ "op" \in DOMAIN obs.arg =>
       /\ obs.lastOp = "accepted"
       /\ syncTimers # {}
C20_Witness ==
  /\ "op" \in DOMAIN obs.arg
  /\ obs.arg.op = "updateSalesModel"
  /\ validateSalesModel(obs.arg.payload).warnings # <<>>
  /\ validateSalesModel(obs.arg.payload).errors = <<>>
  /\ obs.lastOp = "accepted"
  /\ heap[eng.data].salesModel.forecastDailyUnits = 1500

\* C21. Validation cache coherence: every entry of the validation cache is
\* the Validator's result for the Dataset content it is keyed by, the
\* Validator never runs for content it has already validated since the last
\* import or reset, and a validation served from the cache leaves the cache
\* as it was.
C21_CacheCoherence ==
  /\ \A e \in validationCache : e[2] = validateAllData(JSONparse(e[1]))
  /\ \A e1, e2 \in validationCache : e1[1] = e2[1] => e1 = e2
  /\ ~obs.reran
  /\ obs.ran = {e[1] : e \in validationCache}

C21_Witness ==
  /\ obs.cacheHit
  /\ validationCache # {}
  /\ \E e \in validationCache :
       /\ e[1] = JSONstringify(heap[st.data])
       /\ st.validationResults = <<e[2]>>

\* C22. Exactly one scenario is current and it exists: in every state after
\* initialization the published currentScenario is a key of the published
\* scenarios.
C22_CurrentScenarioExists == st.currentScenario \in DOMAIN st.scenarios

\* C23. Menu ids stay unique: after any sequence of addMenu, updateMenu and
\* deleteMenu operations no two menus of the engine's Dataset share an id.
C23_MenuIdsUnique ==
  \A i, j \in 1..Len(heap[eng.data].menus) :
    i # j => heap[eng.data].menus[i].id # heap[eng.data].menus[j].id

\* C24. Every update placed in the queue is eventually applied: whenever the
\* queue is non-empty and no drain is executing a drain is scheduled, also
\* after a drain that was cut short by an update that threw, and a non-empty
\* queue is eventually emptied.
DrainScheduled == (updateQueue # <<>> /\ ~isProcessingQueue) => queueTimer

C24_QueueEventuallyDrains ==
  /\ []DrainScheduled
  /\ (updateQueue # <<>>) ~> (updateQueue = <<>>)

\* C25. No overlapping sync: the in-progress flag is set only while the body
\* of a cycle runs, so it is reset in every state a handler leaves behind
\* (after a full cycle, an unchanged-hash or empty-Dataset early return, a
\* failed save or computation); a trigger that finds the flag set starts no
\* cycle and schedules no timer, it only enqueues a loading-clear.
TriggerWhileSyncing == syncAfterDataChange([World EXCEPT !.isSyncInProgress = TRUE])

C25_NoOverlappingSync ==
  /\ ~isSyncInProgress
  /\ TriggerWhileSyncing.syncTimers = syncTimers
  /\ TriggerWhileSyncing.syncDue = syncDue
  /\ TriggerWhileSyncing.syncTimeoutId = syncTimeoutId
  /\ ~TriggerWhileSyncing.obs.sync.ran
  /\ Len(TriggerWhileSyncing.updateQueue) = Len(updateQueue) + 1
  /\ TriggerWhileSyncing.updateQueue[Len(updateQueue) + 1].update = LoadingUpdate(FALSE)
  /\ SubSeq(TriggerWhileSyncing.updateQueue, 1, Len(updateQueue)) = updateQueue

C25_Witness ==
  /\ obs.sync.ran /\ obs.sync.fast /\ obs.sync.cleared
  /\ ~isSyncInProgress

\* C26. Duplicate report suppression: a sync cycle that computes a report
\* after an earlier cycle has published one publishes a COMPUTATION_UPDATE if
\* and only if the pnl, kpis, per-menu and sensitivity figures of the new
\* report differ from those of the report published last.
AllFigures(result) ==
  [pnl |-> result.pnl, kpis |-> result.kpis, menus |-> result.menus,
   sensitivity |-> result.sensitivity]

C26_DuplicateSuppression ==
  (obs.sync.computeRan /\ obs.sync.prev # NULL)
    => (obs.sync.published <=> AllFigures(obs.sync.report) # AllFigures(obs.sync.prev))

\* C27. During a queue drain auto-save and recomputation are triggered only
\* by a DATA_UPDATE that was the last entry of the queue when it was dequeued
\* and was not enqueued with skipAuto; every other update is applied with
\* these side effects skipped.
C27_AutoOnlyForLastDataUpdate == obs.autoOK

C27_Witness == obs.applied /\ obs.autoSeen /\ obs.autoOK

\* C28. No lost updates between engine and published state: once the update
\* queue has drained, the published data and scenarios equal the engine's
\* current data and scenarios.
C28_PublishedEqualsEngine ==
  (updateQueue = <<>> /\ ~isProcessingQueue)
    => /\ heap[st.data] = heap[eng.data]
       /\ st.scenarios = eng.scenarios

\* C29. Validation follows the data: after importData has succeeded or reset
\* has completed, and no mutation has been issued since, once the queue has
\* drained and no timer is pending validationResults is the Validator's result for the Dataset that
\* was imported or reset to (when the Validator has a result for it).
C29_ValidationFollowsData ==
  (/\ obs.loaded /\ Quiescent
   /\ ~validateAllDataThrows(heap[eng.data]))
    => st.validationResults = <<validateAllData(heap[eng.data])>>

\* C30. Export/import round trip: in any state reached by the mutation
\* operations, importJSON(exportJSON()) succeeds and leaves the Dataset and
\* the scenarios with the content they had before the call.
C30_RoundTrip ==
  "exported" \in DOMAIN obs.arg
    => /\ obs.importResult.success
       /\ heap[eng.data] = obs.arg.data
       /\ eng.scenarios = obs.arg.scenarios

====
